---- MODULE Spec2Model ----
(***************************************************************************)
(* Verification model of the sync orchestration workflow of                *)
(* swish-cloud-sync: the video downloader Lambda (transfer engine), the    *)
(* media lister's diff against the sync ledger, the token validator and    *)
(* the Step Functions state machine that sequences them.                   *)
(*                                                                         *)
(* External services (DynamoDB ledger, S3 object store, Secrets Manager,   *)
(* the provider's HTTP API, CloudWatch, SNS) are modelled by their state   *)
(* and by a nondeterministic outcome for every call the code makes.        *)
(***************************************************************************)
EXTENDS Integers, Sequences, FiniteSets, TLC

VARIABLES
    now,        \* current UTC year-month (datetime.utcnow()), a month index
    ledger,     \* DynamoDB table: media_id -> item (attribute name -> value)
    s3,         \* S3 bucket: object key -> SourceMediaId metadata, or NoObject
    dl,         \* the video downloader invocation in flight: position and locals
    started,    \* number of video downloader invocations started so far
    diff,       \* the media lister's diff in flight: position and locals
    tv,         \* the token validator's validate_cookies call: position and locals
    sfn,        \* the state machine's execution: state, data, Map iterations
    tvh,        \* the token validator handler's invocation: position and effects
    secret,     \* Secrets Manager: the stored credentials of the secrets rotator
    rot,        \* the secrets rotator handler's invocation: position and locals
    rt,         \* a call through a retry decorator: parameters, attempts, sleeps
    pv,         \* a call of the provider client: arguments, requests, result
    ml,         \* the media lister's handler: position, lists, alerts, response
    up,         \* the last call of update_sync_status: arguments, outcome
    failed      \* the keys of the batch_get_item requests that raised in a lookup

vars ==
    <<now, ledger, s3, dl, started, diff, tv, sfn, tvh, secret, rot, rt, pv, ml,
      up, failed>>

----------------------------------------------------------------------------
(* Bounds of the model *)

MaxInvocations == 2     \* video downloader invocations per behaviour
MaxListed == 2          \* media items the provider lists in one run
MaxNow == 2             \* months the clock can reach
MaxRotations == 2       \* rotations that replace the stored credentials

----------------------------------------------------------------------------
(* Program constants *)

MULTIPART_THRESHOLD == 104857600

Provider == "gopro"

----------------------------------------------------------------------------
(* The provider's catalogue: what the listing reports for each media id.   *)
(* m1 and m2 are two media ids with the same filename and upload month, m2  *)
(* larger than the multipart threshold; m3 has no declared size and an      *)
(* upload date that does not parse.                                         *)

MediaIds == {"m1", "m2", "m3"}

Catalog ==
    [m1 |-> [filename |-> "GH010001.MP4", upload_date |-> <<"iso", 1>>,
             file_size |-> 1000],
     m2 |-> [filename |-> "GH010001.MP4", upload_date |-> <<"iso", 1>>,
             file_size |-> MULTIPART_THRESHOLD + 1],
     m3 |-> [filename |-> "GH010002.MP4", upload_date |-> <<"junk">>,
             file_size |-> 0]]

Filenames == {Catalog[m].filename : m \in MediaIds}

NoObject == "no-object"

\* generate_s3_key: '{provider}-videos/{year}/{month}/{filename}', the month
\* parsed from upload_date, or the current UTC month when it does not parse.
generate_s3_key(provider, filename, upload_date, utcnow) ==
    LET ym == IF Len(upload_date) = 2 /\ upload_date[1] = "iso"
              THEN upload_date[2]
              ELSE utcnow
    IN  <<provider, ym, filename>>

AllKeys == {<<Provider, ym, fn>> : ym \in 1..MaxNow, fn \in Filenames}

----------------------------------------------------------------------------
(* Sync ledger (DynamoDB) *)

NoItem == [k \in {} |-> ""]

Status(item) == IF "status" \in DOMAIN item THEN item.status ELSE "NONE"

\* key.replace('-', '_') on the attribute names of the model: the name the
\* update expression sets for an attribute passed as key.
safe_key(key) == IF key = "x-note" THEN "x_note" ELSE key

\* Mutant: the record is replaced by the attributes of the call.
update_sync_status_Replace(item, status, attributes, timestamp) ==
    [k \in {safe_key(a) : a \in DOMAIN attributes} \cup {"status", "update_timestamp"} |->
        IF k = "status" THEN status
        ELSE IF k = "update_timestamp" THEN timestamp
        ELSE attributes[CHOOSE a \in DOMAIN attributes : safe_key(a) = k]]

\* update_sync_status: UpdateItem with 'SET #status = :status,
\* update_timestamp = :timestamp, <safe_key> = :<safe_key> ...': the named
\* attributes are set, every other stored attribute is kept (an upsert).
update_sync_status(item, status, attributes, timestamp) ==
    LET safe == {safe_key(a) : a \in DOMAIN attributes}
    IN  [k \in DOMAIN item \cup safe \cup {"status", "update_timestamp"} |->
            IF k = "status" THEN status
            ELSE IF k = "update_timestamp" THEN timestamp
            ELSE IF k \in safe
            THEN attributes[CHOOSE a \in DOMAIN attributes : safe_key(a) = k]
            ELSE item[k]]

\* No call of update_sync_status has been made.
NoCall == [media_id |-> "", status |-> "", attributes |-> NoItem, raised |-> FALSE]

----------------------------------------------------------------------------

(* Video downloader (transfer engine).                                      *)
(*                                                                          *)
(* A configuration c of one invocation is [d, ledger, s3]: d holds the      *)
(* handler's position and locals, ledger and s3 the stores it acts on.      *)
(* Every operator below is one call of the handler to an external service   *)
(* and gives the set of configurations the call can lead to, one for each   *)
(* outcome of the call (success, or the exceptions it can raise).           *)

\* The event of an invocation for media item m: the fields the state
\* machine's DownloadVideo task passes.
DownloadEvent(m) ==
    [provider |-> Provider, media_id |-> m, filename |-> Catalog[m].filename,
     download_url |-> "url", file_size |-> Catalog[m].file_size,
     upload_date |-> Catalog[m].upload_date, duration |-> 60,
     correlation_id |-> "run"]

\* event.get(key, default)
event_get(event, key, default) ==
    IF key \in DOMAIN event THEN event[key] ELSE default

\* d.calls is the sequence of the invocation's calls to the ledger, the
\* provider and the object store, in the order they were made.
IdleSlot ==
    [pc |-> "idle", event |-> NoItem, s3_key |-> <<>>, head |-> "", err |-> "",
     pending |-> "", result |-> "", calls |-> <<>>, upload |-> "none",
     saw404 |-> FALSE]

\* Mutant: the metadata is read under a key the store never returns.
check_already_uploaded_WrongKey(head, media_id) ==
    head # "error" /\ head # NoObject /\ NoObject = media_id

\* check_already_uploaded: head_object, then compare the 'sourcemediaid'
\* metadata with the media id. Any exception of head_object gives False.
check_already_uploaded(head, media_id) ==
    head # "error" /\ head # NoObject /\ head = media_id

\* Mutant: an unknown size is uploaded directly.
UsesMultipart_OnlyAbove(file_size) == file_size > MULTIPART_THRESHOLD

\* Mutant: multipart from the threshold on.
UsesMultipart_AtThreshold(file_size) ==
    file_size = 0 \/ file_size >= MULTIPART_THRESHOLD

\* download_and_upload_video: multipart when the size is unknown (0) or
\* greater than the threshold, direct upload otherwise.
UsesMultipart(file_size) ==
    file_size = 0 \/ file_size > MULTIPART_THRESHOLD

\* Entry of the handler's except clause that catches an exception of class err.
Handler(err) ==
    CASE err = "HTTPError404" -> "x404"
      [] err \in {"HTTPError", "TransferError"} -> "xfail_ledger"
      [] OTHER -> "xany_ledger"

Raise(c, err) == [c EXCEPT !.d.err = err, !.d.pc = Handler(err)]

Called(c, call) == [c EXCEPT !.d.calls = Append(@, call)]

Goto(c, pc) == [c EXCEPT !.d.pc = pc]

\* The handler returns (result "ok", "already", "deleted") or raises ("raised").
Finish(c, result) == [c EXCEPT !.d.result = result, !.d.pc = "done"]

\* table.update_item succeeded: the item after the upsert.
LedgerPut(c, status, attributes, t) ==
    [c EXCEPT !.ledger[c.d.event.media_id] = update_sync_status(@, status, attributes, t)]

\* handler entry (lines 59-71): the event's fields are read.
Invoke(event) == [IdleSlot EXCEPT !.pc = "creds", !.event = event]

\* retrieve_credentials (lines 73-74, 268-289): any failure becomes TransferError.
DlCreds(c, t) ==
    {Goto(c, "head"), Raise(c, "TransferError")}

\* Mutant: the handler goes from the idempotency check to the provider.
DlHead_SkipInProgress(c, t) ==
    LET e == c.d.event
        key == generate_s3_key(event_get(e, "provider", "gopro"), e.filename,
                               event_get(e, "upload_date", <<>>), t)
    IN  { IF check_already_uploaded(head, e.media_id)
          THEN Finish([c EXCEPT !.d.s3_key = key, !.d.head = head], "already")
          ELSE Goto([c EXCEPT !.d.s3_key = key, !.d.head = head], "resolve")
          : head \in {c.s3[key], "error"} }

\* generate_s3_key, then the idempotency check with head_object (lines 76-88).
DlHead(c, t) ==
    LET e == c.d.event
        key == generate_s3_key(event_get(e, "provider", "gopro"), e.filename,
                               event_get(e, "upload_date", <<>>), t)
    IN  { IF check_already_uploaded(head, e.media_id)
          THEN Finish([c EXCEPT !.d.s3_key = key, !.d.head = head], "already")
          ELSE Goto([c EXCEPT !.d.s3_key = key, !.d.head = head], "inprog")
          : head \in {c.s3[key], "error"} }

\* update_sync_status(IN_PROGRESS, filename/size/date), lines 90-96.
DlInProgress(c, t) ==
    LET e == c.d.event
        w == Called(c, "ledger:IN_PROGRESS")
    IN  { Goto(LedgerPut(w, "IN_PROGRESS",
                         [filename |-> e.filename,
                          file_size |-> event_get(e, "file_size", 0)], t), "resolve"),
          Raise(w, "Exception") }

\* provider.get_download_url (lines 98-112): APIError becomes TransferError,
\* any other exception propagates as it is.
DlResolve(c, t) ==
    LET w == Called(c, "resolve")
    IN  { Goto(w, IF UsesMultipart(event_get(c.d.event, "file_size", 0))
                  THEN "m_create" ELSE "d_get"),
          Raise([w EXCEPT !.d.saw404 = TRUE], "TransferError"),
          Raise(w, "TransferError"),
          Raise(w, "Exception") }

\* What requests.get + raise_for_status can raise: an HTTPError with status
\* 404 or another status, or a network exception.
GetErrors == {"HTTPError404", "HTTPError", "Exception"}

\* direct_upload_stream: the download (lines 458-468).
DlDirectGet(c, t) ==
    LET w == Called(c, "download")
    IN  {Goto(w, "d_put")} \cup
        {Raise([w EXCEPT !.d.saw404 = (r = "HTTPError404")], r) : r \in GetErrors}

\* direct_upload_stream: put_object with SourceMediaId metadata (lines 477-497).
DlDirectPut(c, t) ==
    LET w == Called(c, "put")
    IN  { Goto([w EXCEPT !.s3[c.d.s3_key] = c.d.event.media_id], "completed"),
          Raise(w, "Exception") }

\* multipart_upload_stream: create_multipart_upload, before the try (lines 523-538).
DlMpCreate(c, t) ==
    LET w == Called(c, "create_multipart_upload")
    IN  { Goto([w EXCEPT !.d.upload = "open"], "m_get"),
          Raise(w, "Exception") }

\* Mutant: the exception leaves multipart_upload_stream without an abort.
MpFail_NoAbort(c, err) == Raise(c, err)

\* An exception inside the try of multipart_upload_stream: abort, then re-raise.
MpFail(c, err) == [c EXCEPT !.d.pending = err, !.d.pc = "m_abort"]

\* multipart_upload_stream: the streaming download (lines 545-552).
DlMpGet(c, t) ==
    LET w == Called(c, "download")
    IN  {Goto(w, "m_part")} \cup
        {MpFail([w EXCEPT !.d.saw404 = (r = "HTTPError404")], r) : r \in GetErrors}

\* multipart_upload_stream: the chunk loop (lines 555-574): one more part is
\* uploaded, or uploading it (or reading the stream) fails, or the stream ends.
DlMpPart(c, t) ==
    { Goto(c, "m_part"), MpFail(c, "Exception"), Goto(c, "m_complete") }

\* multipart_upload_stream: complete_multipart_upload (lines 582-598).
DlMpComplete(c, t) ==
    LET w == Called(c, "put")
    IN  { Goto([w EXCEPT !.s3[c.d.s3_key] = c.d.event.media_id,
                         !.d.upload = "completed"], "completed"),
          MpFail(w, "Exception") }

\* multipart_upload_stream: abort_multipart_upload in the except clause; a
\* failing abort is logged; the original exception is re-raised (lines 600-614).
DlMpAbort(c, t) ==
    LET w == Called(c, "abort_multipart_upload")
    IN  { Raise([w EXCEPT !.d.upload = "aborted"], c.d.pending),
          Raise(w, c.d.pending) }

\* update_sync_status(COMPLETED, s3_key ...), lines 131-139.
DlCompleted(c, t) ==
    LET w == Called(c, "ledger:COMPLETED")
    IN  { Goto(LedgerPut(w, "COMPLETED",
                         [s3_key |-> c.d.s3_key, sync_timestamp |-> t], t), "metrics"),
          Raise(w, "Exception") }

\* metrics_publisher.record_video_synced (lines 141-147): not guarded.
DlMetrics(c, t) ==
    { Goto(c, "ttfb"), Raise(c, "Exception") }

\* metrics_publisher.put_metric('TimeToFirstByte') and the return (lines 149-174).
DlTtfb(c, t) ==
    { Finish(c, "ok"), Raise(c, "Exception") }

\* except HTTPError with status 404 (lines 176-192): COMPLETED with the
\* source_deleted note; a failing ledger write propagates out of the handler.
Dl404(c, t) ==
    LET w == Called(c, "ledger:COMPLETED")
    IN  { Finish(LedgerPut(w, "COMPLETED",
                           [note |-> "source_deleted", sync_timestamp |-> t], t), "deleted"),
          Finish([w EXCEPT !.d.err = "Exception"], "raised") }

\* The attributes of a FAILED write (lines 203-206, 225-228, 248-251).
FailedAttributes(d) ==
    [error_message |-> d.err,
     retry_count |-> event_get(d.event, "retry_count", 0) + 1]

\* except HTTPError (other status) / except TransferError: the FAILED write
\* (lines 201-206, 223-228); a failing write propagates instead of the error.
DlFailLedger(c, t) ==
    LET w == Called(c, "ledger:FAILED")
    IN  { Goto(LedgerPut(w, "FAILED", FailedAttributes(c.d), t), "xfail_metric"),
          Finish([w EXCEPT !.d.err = "Exception"], "raised") }

\* except HTTPError / TransferError: record_sync_failure, then raise
\* (lines 208-215, 230-237); a failing publish propagates instead of the error.
DlFailMetric(c, t) ==
    { Finish(c, "raised"), Finish([c EXCEPT !.d.err = "Exception"], "raised") }

\* except Exception: the FAILED write inside try/except-pass (lines 245-253).
DlAnyLedger(c, t) ==
    LET w == Called(c, "ledger:FAILED")
    IN  { Goto(LedgerPut(w, "FAILED", FailedAttributes(c.d), t), "xany_metric"),
          Goto(w, "xany_metric") }

\* except Exception: record_sync_failure inside try/except-pass, then raise
\* (lines 255-265).
DlAnyMetric(c, t) ==
    { Finish(c, "raised") }

\* The configurations one call of the handler leads to from c at time t.
DlStep(c, t) ==
    CASE c.d.pc = "creds" -> DlCreds(c, t)
      [] c.d.pc = "head" -> DlHead(c, t)
      [] c.d.pc = "inprog" -> DlInProgress(c, t)
      [] c.d.pc = "resolve" -> DlResolve(c, t)
      [] c.d.pc = "d_get" -> DlDirectGet(c, t)
      [] c.d.pc = "d_put" -> DlDirectPut(c, t)
      [] c.d.pc = "m_create" -> DlMpCreate(c, t)
      [] c.d.pc = "m_get" -> DlMpGet(c, t)
      [] c.d.pc = "m_part" -> DlMpPart(c, t)
      [] c.d.pc = "m_complete" -> DlMpComplete(c, t)
      [] c.d.pc = "m_abort" -> DlMpAbort(c, t)
      [] c.d.pc = "completed" -> DlCompleted(c, t)
      [] c.d.pc = "metrics" -> DlMetrics(c, t)
      [] c.d.pc = "ttfb" -> DlTtfb(c, t)
      [] c.d.pc = "x404" -> Dl404(c, t)
      [] c.d.pc = "xfail_ledger" -> DlFailLedger(c, t)
      [] c.d.pc = "xfail_metric" -> DlFailMetric(c, t)
      [] c.d.pc = "xany_ledger" -> DlAnyLedger(c, t)
      [] c.d.pc = "xany_metric" -> DlAnyMetric(c, t)
      [] OTHER -> {}

InFlight(d) == d.pc \notin {"idle", "done"}

\* The configurations in which an invocation that is in configuration c can
\* end (the chunk loop taken any number of times).
RECURSIVE RunToEnd(_, _)
RunToEnd(c, t) ==
    IF ~InFlight(c.d) THEN {c}
    ELSE UNION {RunToEnd(c2, t) : c2 \in DlStep(c, t) \ {c}}

\* The call whose exception the handler raised: the last one it made before
\* the FAILED write of its except clause.
RaisedIn(d) ==
    LET made == SelectSeq(d.calls, LAMBDA call : call # "ledger:FAILED")
    IN  IF made = <<>> THEN "" ELSE made[Len(made)]

\* What the Lambda service reports of a finished invocation: the payload the
\* handler returned (lines 82-88, 165-174, 187-192) or the class of the
\* exception it raised.
DownloaderOutcome(d) ==
    CASE d.result = "ok" ->
            [kind |-> "payload",
             payload |-> [statusCode |-> 200, media_id |-> d.event.media_id,
                          s3_key |-> d.s3_key, s3_etag |-> "etag",
                          bytes_transferred |-> 1,
                          transfer_duration_seconds |-> 1,
                          throughput_mbps |-> 1, correlation_id |-> "run"]]
      [] d.result = "already" ->
            [kind |-> "payload",
             payload |-> [statusCode |-> 200, media_id |-> d.event.media_id,
                          s3_key |-> d.s3_key, message |-> "Already uploaded",
                          correlation_id |-> "run"]]
      [] d.result = "deleted" ->
            [kind |-> "payload",
             payload |-> [statusCode |-> 200, media_id |-> d.event.media_id,
                          message |-> "Video deleted from source",
                          correlation_id |-> "run"]]
      [] OTHER -> [kind |-> "error", error |-> d.err, call |-> RaisedIn(d)]

----------------------------------------------------------------------------
(* Media lister: the diff of the provider's listing against the ledger.     *)

batch_size == 100       \* keys per batch_get_item request
max_retries == 3        \* retries of a request with unprocessed keys

\* The remote lists: the provider's media ids in any order, each once.
RECURSIVE Lists(_)
Lists(S) ==
    IF S = {} THEN {<<>>}
    ELSE UNION {{<<x>> \o l : l \in Lists(S \ {x})} : x \in S}

RemoteLists ==
    UNION {Lists(S) : S \in {T \in SUBSET MediaIds : Cardinality(T) <= MaxListed}}

Min(a, b) == IF a < b THEN a ELSE b

\* media_ids[i:i + batch_size], as the set of keys of the request.
BatchKeys(media_ids, i) ==
    {media_ids[j] : j \in (i + 1)..Min(i + batch_size, Len(media_ids))}

\* sync_statuses.get(media_id): None when the lookup returned no status.
StatusOf(sync_statuses, media_id) ==
    IF media_id \in DOMAIN sync_statuses THEN sync_statuses[media_id] ELSE "None"

\* Mutant: only items without a status need a sync.
NeedsSync_OnlyMissing(status) == status = "None"

\* The test of the filter loop: status is None or status != 'COMPLETED'.
NeedsSync(status) == status = "None" \/ status # "COMPLETED"

\* filter_new_videos, the loop over the videos (lines 322-336).
FilterLoop(videos, sync_statuses, new_videos) ==
    new_videos \o
        SelectSeq(videos, LAMBDA video : NeedsSync(StatusOf(sync_statuses, video)))

\* d.first is the outcome of the first diff of a pair of diffs of the same
\* list; d.changed tells that the ledger was written since the pair began;
\* d.lost that a lookup gave up on some keys (store error, or keys still
\* unprocessed after the last retry).
IdleDiff ==
    [pc |-> "idle", videos |-> <<>>, i |-> 0, pending |-> {}, attempt |-> 0,
     sync_statuses |-> NoItem, new_videos |-> <<>>, lost |-> FALSE,
     run |-> 0, first |-> NoItem, changed |-> FALSE]

\* batch_get_sync_status: the for loop over the batches moves to the batch at
\* offset i; past the last batch the statuses are returned and
\* filter_new_videos filters the list (lines 357-361, 421-423, 322-340).
NextBatch(d, i) ==
    IF i < Len(d.videos)
    THEN [d EXCEPT !.pc = "request", !.i = i, !.attempt = 0,
                   !.pending = BatchKeys(d.videos, i)]
    ELSE [d EXCEPT !.pc = "done", !.i = i, !.pending = {},
                   !.new_videos = FilterLoop(d.videos, d.sync_statuses, <<>>)]

\* filter_new_videos is entered with the list (lines 312-320).
filter_new_videos(d, videos) ==
    IF videos = <<>>
    THEN [d EXCEPT !.pc = "done", !.videos = videos, !.new_videos = <<>>,
                   !.sync_statuses = NoItem, !.lost = FALSE]
    ELSE NextBatch([d EXCEPT !.videos = videos, !.sync_statuses = NoItem,
                             !.lost = FALSE], 0)

\* Mutant: the statuses are those of the last response only.
Extract_LastResponse(sync_statuses, table, processed) ==
    LET found == {m \in processed : table[m] # NoItem}
    IN  [m \in found |-> Status(table[m])]

\* The statuses after a response: sync_statuses[media_id] = item.get('status')
\* for every item of the response (lines 383-388). The response holds the
\* items that exist among the processed keys.
Extract(sync_statuses, table, processed) ==
    LET found == {m \in processed : table[m] # NoItem}
    IN  [m \in DOMAIN sync_statuses \cup found |->
            IF m \in found THEN Status(table[m]) ELSE sync_statuses[m]]

\* Mutant: a retry requests the keys of the previous request again.
BatchResponse_RetryAll(d, table, processed) ==
    LET unprocessed == d.pending \ processed
        e == [d EXCEPT !.sync_statuses = Extract(@, table, processed)]
    IN  IF unprocessed = {} THEN NextBatch(e, d.i + batch_size)
        ELSE IF d.attempt < max_retries
        THEN [e EXCEPT !.attempt = @ + 1]
        ELSE NextBatch([e EXCEPT !.lost = TRUE], d.i + batch_size)

\* One batch_get_item request answered with the items of the processed keys
\* and the rest as UnprocessedKeys (lines 380-413).
BatchResponse(d, table, processed) ==
    LET unprocessed == d.pending \ processed
        e == [d EXCEPT !.sync_statuses = Extract(@, table, processed)]
    IN  IF unprocessed = {} THEN NextBatch(e, d.i + batch_size)
        ELSE IF d.attempt < max_retries
        THEN [e EXCEPT !.attempt = @ + 1, !.pending = unprocessed]
        ELSE NextBatch([e EXCEPT !.lost = TRUE], d.i + batch_size)

\* Mutant: the lookup ends at the request that raised.
BatchError_Abandon(d) == NextBatch([d EXCEPT !.lost = TRUE], Len(d.videos))

\* One batch_get_item request raises: logged, the loop continues with the
\* next batch (lines 415-417).
BatchError(d) == NextBatch([d EXCEPT !.lost = TRUE], d.i + batch_size)

----------------------------------------------------------------------------
(* Token validator: validate_cookies.                                       *)

\* A cookie string is the sequence of its 'name=value' parts.
Cookie(name, value) == [name |-> name, value |-> value]

\* The cookie strings of the stored credentials: none, the two tokens alone,
\* the tokens among other cookies, one token missing, one token empty, and
\* no token at all.
CookieStrings ==
    { <<>>,
      <<Cookie("gp_access_token", "tok"), Cookie("gp_user_id", "uid")>>,
      <<Cookie("session", "s1"), Cookie("gp_access_token", "tok"),
        Cookie("gp_user_id", "uid")>>,
      <<Cookie("session", "s1"), Cookie("gp_access_token", "tok")>>,
      <<Cookie("gp_access_token", ""), Cookie("gp_user_id", "uid"),
        Cookie("session", "s1")>>,
      <<Cookie("session", "s1")>> }

\* extract_cookie_value: the value of the first part named cookie_name, or ''.
RECURSIVE extract_cookie_value(_, _)
extract_cookie_value(cookie_string, cookie_name) ==
    IF cookie_string = <<>> THEN ""
    ELSE IF Head(cookie_string).name = cookie_name THEN Head(cookie_string).value
    ELSE extract_cookie_value(Tail(cookie_string), cookie_name)

\* What requests.get can give: a response with a status code, a timeout, or
\* another exception.
ApiOutcomes ==
    [kind : {"response"}, status_code : {200, 204, 401, 403, 429, 500}]
        \cup [kind : {"timeout", "error"}, status_code : {0}]

\* test_api_call: success iff the status code is 200; a timeout or any other
\* exception gives http_code 0.
test_api_call(outcome) ==
    IF outcome.kind # "response"
    THEN [success |-> FALSE, http_code |-> 0]
    ELSE [success |-> outcome.status_code = 200,
          http_code |-> outcome.status_code]

\* Mutant: the minimal phase is never entered.
Phase1Applies_Never(gp_access_token, gp_user_id) == FALSE

\* The guard of phase 1: both values extracted and not empty.
Phase1Applies(gp_access_token, gp_user_id) ==
    gp_access_token # "" /\ gp_user_id # ""

\* Mutant: only 401 counts as an expired token.
FailureFor_Only401(http_code) ==
    IF http_code = 401 THEN "TokenExpiredError" ELSE "AuthenticationError"

\* The exception raised after the last probe failed (lines 271-282).
FailureFor(http_code) ==
    IF http_code \in {401, 403} THEN "TokenExpiredError" ELSE "AuthenticationError"

\* v.probes is the sequence of the test API calls made, each with the phase
\* that made it, the cookie string it sent and the http_code it got.
IdleTv ==
    [pc |-> "idle", cookies |-> <<>>, probes |-> <<>>, method |-> "",
     http_code |-> 0, error |-> ""]

Probe(v, phase, cookies, result) ==
    [v EXCEPT !.probes = Append(@, [phase |-> phase, cookies |-> cookies,
                                    http_code |-> result.http_code])]

\* validate_cookies up to its first test call (lines 243-256).
validate_cookies(cookies) ==
    IF cookies = <<>>
    THEN [IdleTv EXCEPT !.pc = "raised", !.error = "AuthenticationError"]
    ELSE IF Phase1Applies(extract_cookie_value(cookies, "gp_access_token"),
                          extract_cookie_value(cookies, "gp_user_id"))
    THEN [IdleTv EXCEPT !.pc = "minimal", !.cookies = cookies]
    ELSE [IdleTv EXCEPT !.pc = "full", !.cookies = cookies]

\* The cookie string of phase 1 (line 258).
minimal_cookies(cookies) ==
    <<Cookie("gp_access_token", extract_cookie_value(cookies, "gp_access_token")),
      Cookie("gp_user_id", extract_cookie_value(cookies, "gp_user_id"))>>

\* Phase 1: the test call with the minimal cookies (lines 256-263).
ValidateMinimal(v, outcome) ==
    LET result == test_api_call(outcome)
        w == Probe(v, "minimal", minimal_cookies(v.cookies), result)
    IN  IF result.success
        THEN [w EXCEPT !.pc = "returned", !.method = "minimal_cookies",
                       !.http_code = result.http_code]
        ELSE [w EXCEPT !.pc = "full"]

\* Phase 2: the test call with the full cookie header (lines 265-282).
ValidateFull(v, outcome) ==
    LET result == test_api_call(outcome)
        w == Probe(v, "full", v.cookies, result)
    IN  IF result.success
        THEN [w EXCEPT !.pc = "returned", !.method = "full_cookies",
                       !.http_code = result.http_code]
        ELSE [w EXCEPT !.pc = "raised", !.http_code = result.http_code,
                       !.error = FailureFor(result.http_code)]

----------------------------------------------------------------------------
(* Token validator: handler.                                                *)
(*                                                                          *)
(* h.pc is the handler's position, h.branch the except clause it is in      *)
(* ('' in the try block), h.alert what became of the expiration alert and   *)
(* h.raised the exception that left the handler, if one did.  The function  *)
(* is deployed with SNS_TOPIC_ARN set (lambda_construct.py line 143).       *)

IdleTvh ==
    [pc |-> "idle", branch |-> "", cookies |-> <<>>, cookie_age_days |-> 0,
     alert |-> "none", logged |-> <<>>, response |-> NoItem, raised |-> ""]

\* An exception of class error is raised in the try block: the matching
\* except clause is entered (lines 103 and 135).
TvhExcept(h, error) ==
    [h EXCEPT !.pc = "x_creds",
              !.branch = IF error = "TokenExpiredError" THEN "expired" ELSE "error",
              !.logged = Append(@, error)]

\* The handler is invoked (lines 45-52).
TvhInvoke == [IdleTvh EXCEPT !.pc = "creds"]

\* retrieve_credentials and calculate_cookie_age (lines 56-59): the stored
\* cookies, or AuthenticationError when the secret cannot be read.
TvhCredentials(h, ok, cookies) ==
    IF ok THEN [h EXCEPT !.pc = "age_metric", !.cookies = cookies,
                         !.cookie_age_days = 1]
    ELSE TvhExcept(h, "AuthenticationError")

\* put_metric CookieAgeDays (lines 62-66); put_metric does not catch the
\* errors of put_metric_data (metrics_utils.py lines 49-52).
TvhAgeMetric(h, ok) ==
    IF ok THEN [h EXCEPT !.pc = "validate"] ELSE TvhExcept(h, "ClientError")

\* validate_cookies has returned or raised (line 69).
TvhValidated(h, v) ==
    IF v.pc = "returned" THEN [h EXCEPT !.pc = "ok_metrics"]
    ELSE TvhExcept(h, v.error)

\* put_metrics and the return of the try block (lines 75-101).
TvhSuccess(h, v, ok) ==
    IF ok
    THEN [h EXCEPT !.pc = "done",
                   !.response = [statusCode |-> 200, valid |-> TRUE,
                                 cookie_age_days |-> h.cookie_age_days,
                                 validation_method |-> v.method,
                                 duration_seconds |-> 1,
                                 correlation_id |-> "run"]]
    ELSE TvhExcept(h, "ClientError")

\* The cookie age of an except clause (lines 105-109 and 137-141): read
\* again, 999.0 when that fails.
TvhFailureAge(h, ok) ==
    [h EXCEPT !.pc = "x_metric", !.cookie_age_days = IF ok THEN 1 ELSE 999]

\* The response of the except clause h is in (lines 126-133 and 155-162).
TvhFailureResponse(h) ==
    [statusCode |-> IF h.branch = "expired" THEN 401 ELSE 500,
     valid |-> FALSE, cookie_age_days |-> h.cookie_age_days,
     error |-> h.logged[Len(h.logged)], message |-> "failed",
     correlation_id |-> "run"]

\* put_metric ValidationFailure of an except clause (lines 117-121 and
\* 149-153): an error of put_metric_data leaves the handler; otherwise the
\* TokenExpiredError clause goes on to the alert and the other one returns.
TvhFailureMetric(h, ok) ==
    IF ~ok THEN [h EXCEPT !.pc = "done", !.raised = "ClientError"]
    ELSE IF h.branch = "expired" THEN [h EXCEPT !.pc = "alert"]
    ELSE [h EXCEPT !.pc = "done", !.response = TvhFailureResponse(h)]

\* publish_expiration_alert: sns publish; a failure is logged and swallowed
\* (lines 373-396).
publish_expiration_alert(h, ok) ==
    IF ok THEN [h EXCEPT !.alert = "published"]
    ELSE [h EXCEPT !.alert = "failed", !.logged = Append(@, "Failed to publish alert")]

\* The alert and the return of the TokenExpiredError clause (lines 124-133).
TvhAlert(h, ok) ==
    LET g == publish_expiration_alert(h, ok)
    IN  [g EXCEPT !.pc = "done", !.response = TvhFailureResponse(g)]

----------------------------------------------------------------------------
(* Secrets rotator: handler.                                                *)
(*                                                                          *)
(* Credentials are records; r.writes is the sequence of the update_secret   *)
(* calls made, r.notified the subjects handed to sns publish.  The function *)
(* is deployed with SNS_TOPIC_ARN set (secrets_rotation_construct.py line   *)
(* 70).  refresh_credentials and test_credentials look the provider up      *)
(* with ProviderFactory.get_provider, a name the factory of                 *)
(* provider_interface.py does not define (it defines create_provider): the  *)
(* lookup raises AttributeError unless the factory is replaced, which is    *)
(* one of the outcomes of a provider call here.                             *)

InitialCredentials ==
    [access_token |-> "a0", user_id |-> "u", refresh_token |-> "r0",
     rotation_count |-> 0]

\* What ProviderFactory.get_provider(...).authenticate(...) can give: the
\* AttributeError of the lookup, an exception of the provider, or a result
\* with an access_token and a user_id (either may be empty).
AuthenticateOutcomes ==
    [kind : {"AttributeError", "AuthenticationError"}, access_token : {""},
     user_id : {""}]
        \cup [kind : {"result"}, access_token : {"a1", ""}, user_id : {"u", ""}]

\* What update_secret can give: stored; an error and nothing stored; an
\* error after the value was stored (the reply was lost).
UpdateSecretOutcomes == {"ok", "error", "lost_reply"}

IdleRot ==
    [pc |-> "idle", current |-> NoItem, new |-> NoItem, attempt |-> 0,
     refreshed |-> FALSE, tested |-> FALSE, writes |-> <<>>, error |-> "",
     metrics |-> <<>>, notified |-> <<>>, response |-> NoItem]

\* An exception reaches the handler's except clause (line 112).
RotExcept(r, error) == [r EXCEPT !.pc = "x_metrics", !.error = error]

\* The handler is invoked (lines 46-54).
RotInvoke == [IdleRot EXCEPT !.pc = "retrieve"]

\* retrieve_credentials (lines 58-61): the stored secret, or
\* AuthenticationError.
RotRetrieve(r, stored, ok) ==
    IF ok THEN [r EXCEPT !.pc = "refresh", !.current = stored, !.attempt = 1]
    ELSE RotExcept(r, "AuthenticationError")

\* updated_credentials of refresh_credentials (lines 207-215).
updated_credentials(credentials, auth_result) ==
    [credentials EXCEPT !.access_token = auth_result.access_token,
                        !.user_id = auth_result.user_id,
                        !.rotation_count = @ + 1]

refresh_max_attempts == 3   \* max_attempts of refresh_credentials' retry decorator

\* One attempt of refresh_credentials under exponential_backoff_retry
\* (lines 173-224, retry_utils.py lines 37-66): every exception becomes
\* AuthenticationError, which is retried until the last attempt.
RotRefresh(r, outcome) ==
    IF outcome.kind = "result"
    THEN [r EXCEPT !.pc = "test", !.refreshed = TRUE,
                   !.new = updated_credentials(r.current, outcome)]
    ELSE IF r.attempt = refresh_max_attempts
    THEN RotExcept(r, "AuthenticationError")
    ELSE [r EXCEPT !.attempt = @ + 1]

\* Mutant: the probe's failure is ignored.
RotTest_SkipProbe(r, ok) == [r EXCEPT !.pc = "store"]

\* test_credentials (lines 238-261): AuthenticationError when access_token
\* or user_id is missing or when the provider lookup or its list_media call
\* raises.
RotTest(r, ok) ==
    IF r.new.access_token # "" /\ r.new.user_id # "" /\ ok
    THEN [r EXCEPT !.pc = "store", !.tested = TRUE]
    ELSE RotExcept(r, "AuthenticationError")

\* The stored secret after an update_secret call with credentials.
Stored(stored, credentials, outcome) ==
    IF outcome = "error" THEN stored ELSE credentials

\* An update_secret call joins r.writes.
Written(r, credentials, outcome) ==
    [r EXCEPT !.writes = Append(@, [credentials |-> credentials,
                                    outcome |-> outcome])]

\* store_credentials(new_credentials) (line 74): on an exception the
\* rollback follows.
RotStore(r, outcome) ==
    [Written(r, r.new, outcome) EXCEPT
        !.pc = IF outcome = "ok" THEN "ok_notify" ELSE "rollback"]

\* Mutant: no rollback write is made.
RotRollback_NoWrite(r, outcome) == RotExcept(r, "AuthenticationError")

\* The rollback, store_credentials(current_credentials) (lines 75-83): its
\* own failure is logged, and AuthenticationError is raised either way.
RotRollback(r, outcome) ==
    RotExcept(Written(r, r.current, outcome), "AuthenticationError")

\* send_notification (lines 340-366): the subject is handed to sns publish;
\* a failure of the publish is logged.
send_notification(r, subject, delivered) ==
    [r EXCEPT !.notified = Append(@, [subject |-> subject,
                                      delivered |-> delivered])]

\* What CloudWatch takes of the two put_metric calls of
\* publish_rotation_metrics: both, the outcome metric only (the duration
\* metric raised), or none (the outcome metric raised).
MetricOutcomes == {"both", "outcome", "none"}

\* publish_rotation_metrics (lines 290-320): RotationSuccess or
\* RotationFailure, then RotationDuration; an exception of either put_metric
\* is logged.
publish_rotation_metrics(r, success, published) ==
    [r EXCEPT !.metrics = Append(@, [success |-> success,
                                     published |-> published])]

\* The end of the try block (lines 86-110): the success metrics, the success
\* notification and the 200 response.
RotSuccess(r, published, delivered) ==
    [send_notification(publish_rotation_metrics(r, TRUE, published),
                       "Secrets Rotation Successful", delivered) EXCEPT
        !.pc = "done",
        !.response = [statusCode |-> 200, provider |-> "gopro",
                      message |-> "Secrets rotation completed successfully"]]

\* Mutant: the except clause returns its response at once.
RotFailure_Silent(r, published, delivered) ==
    [r EXCEPT !.pc = "done",
              !.response = [statusCode |-> 500, provider |-> "gopro",
                            error |-> r.error, message |-> "failed"]]

\* The except clause (lines 112-141): the failure metrics, the failure
\* notification and the 500 response.
RotFailure(r, published, delivered) ==
    [send_notification(publish_rotation_metrics(r, FALSE, published),
                       "Secrets Rotation Failed", delivered) EXCEPT
        !.pc = "done",
        !.response = [statusCode |-> 500, provider |-> "gopro",
                      error |-> r.error, message |-> "failed"]]

----------------------------------------------------------------------------
(* Retry decorators (retry_utils.py).  A wrapped function is the            *)
(* environment: each call returns or raises.  An exception is its class     *)
(* and, for APIError, its status_code.                                      *)

NoStatus == 0   \* status_code of an exception that carries none

Returned == [exc |-> "", status_code |-> NoStatus]

Raised(exc, status_code) == [exc |-> exc, status_code |-> status_code]

IdleRt ==
    [wrapper |-> "", pc |-> "idle", max_attempts |-> 0, initial_delay |-> 0,
     backoff_rate |-> 0, max_delay |-> 0, retryable_exceptions |-> {},
     status_codes |-> {}, attempt |-> 0, delay |-> 0, calls |-> <<>>,
     sleeps |-> <<>>, raised |-> Returned]

\* The wrapper is entered (lines 33-37 and 93-96): with no attempt to make,
\* the loop is empty and the wrapper returns None.
RtEnter(wrapper, a) ==
    [IdleRt EXCEPT !.wrapper = wrapper,
                   !.pc = IF a.max_attempts >= 1 THEN "call" ELSE "returned",
                   !.max_attempts = a.max_attempts,
                   !.initial_delay = a.initial_delay,
                   !.backoff_rate = a.backoff_rate,
                   !.max_delay = a.max_delay,
                   !.retryable_exceptions = a.retryable_exceptions,
                   !.status_codes = a.status_codes,
                   !.attempt = 1,
                   !.delay = a.initial_delay]

RtReturn(r) == [r EXCEPT !.pc = "returned"]

RtRaise(r, outcome) == [r EXCEPT !.pc = "raised", !.raised = outcome]

RtSleep(r, next_delay) ==
    [r EXCEPT !.sleeps = Append(@, r.delay), !.delay = next_delay,
              !.attempt = @ + 1]

\* One pass of the loop of exponential_backoff_retry (lines 37-66).
exponential_backoff_retry(r, outcome) ==
    LET c == [r EXCEPT !.calls = Append(@, outcome)]
    IN  IF outcome = Returned THEN RtReturn(c)
        ELSE IF outcome.exc \notin c.retryable_exceptions
        THEN RtRaise(c, outcome)
        ELSE IF c.attempt = c.max_attempts THEN RtRaise(c, outcome)
        ELSE RtSleep(c, Min(c.delay * c.backoff_rate, c.max_delay))

\* Mutant: every APIError is retried, whatever its status code.
retry_on_api_error_AnyStatus(r, outcome) ==
    LET c == [r EXCEPT !.calls = Append(@, outcome)]
    IN  IF outcome = Returned THEN RtReturn(c)
        ELSE IF outcome.exc # "APIError" \/ c.attempt = c.max_attempts
        THEN RtRaise(c, outcome)
        ELSE RtSleep(c, c.delay * 2)

\* One pass of the loop of retry_on_api_error (lines 96-115).
retry_on_api_error(r, outcome) ==
    LET c == [r EXCEPT !.calls = Append(@, outcome)]
    IN  IF outcome = Returned THEN RtReturn(c)
        ELSE IF outcome.exc # "APIError" THEN RtRaise(c, outcome)
        ELSE IF \/ outcome.status_code \notin c.status_codes
                \/ c.attempt = c.max_attempts
        THEN RtRaise(c, outcome)
        ELSE RtSleep(c, c.delay * 2)

----------------------------------------------------------------------------
(* Provider client (gopro_provider.py): page listing and download URL       *)
(* resolution.  The provider's answer to a request is the environment: an   *)
(* HTTP status, or no answer (timeout, connection error).  An item of a     *)
(* page is "video" when it is a camera file that parses, "other" when the   *)
(* loop skips it (no filename, another prefix, or a parse error).           *)

Timeout == 0            \* no answer within the request's timeout
ConnectionError == 1    \* the request failed below HTTP

\* The status_code of the APIError raised for an answer that is not 200
\* (lines 443-447 and 476-479; 548-555 and 607-610).
ApiErrorStatus(status) ==
    IF status = Timeout THEN 408
    ELSE IF status = ConnectionError THEN 500
    ELSE status

IdlePv ==
    [fn |-> "", pc |-> "idle", start_page |-> 0, page_size |-> 0,
     max_results |-> 0, pages_needed |-> 0, page |-> 0, requests |-> <<>>,
     answers |-> <<>>, videos |-> <<>>, raised |-> 0]

PagesNeeded_PerItem(max_results, page_size) == max_results

\* The media lister's handler before an invocation (media_lister/handler.py).
IdleMl ==
    [pc |-> "idle", listed |-> <<>>, returned |-> FALSE, all_videos |-> <<>>,
     new_videos |-> <<>>, error |-> "", status_code |-> 0, alerts |-> 0,
     statusCode |-> 0, raised |-> "", faults |-> 0]

\* (max_results + page_size - 1) // page_size
PagesNeeded(max_results, page_size) ==
    (max_results + page_size - 1) \div page_size

\* The loop of list_media_with_start_page asks for the next page, or is over
\* and the function returns (lines 526-527, 612-615).
PvNextPage(v, page) ==
    IF Len(v.requests) < v.pages_needed
    THEN [v EXCEPT !.pc = "request", !.page = page,
                   !.requests = Append(@, page)]
    ELSE [v EXCEPT !.pc = "returned", !.page = page]

\* list_media_with_start_page is entered (lines 521-527).
PvListEnter(start_page, page_size, max_results) ==
    PvNextPage([IdlePv EXCEPT !.fn = "list_media_with_start_page",
                              !.start_page = start_page,
                              !.page_size = page_size,
                              !.max_results = max_results,
                              !.pages_needed =
                                  PagesNeeded(max_results, page_size)],
               start_page)

\* The loop over the items of a page (lines 565-584): a video joins the
\* list, and the function returns when the list holds max_results videos.
RECURSIVE PvItems(_, _, _)
PvItems(v, items, k) ==
    IF k > Len(items) THEN v
    ELSE IF items[k] # "video" THEN PvItems(v, items, k + 1)
    ELSE LET w == [v EXCEPT !.videos = Append(@, <<v.page, k>>)]
         IN  IF Len(w.videos) >= w.max_results
             THEN [w EXCEPT !.pc = "returned"]
             ELSE PvItems(w, items, k + 1)

\* One pass of the loop of list_media_with_start_page (lines 527-610): the
\* answer to the request of a page.
list_media_with_start_page(v, answer) ==
    LET a == [v EXCEPT !.answers = Append(@, answer)]
    IN  IF answer.status # 200
        THEN [a EXCEPT !.pc = "raised", !.raised = ApiErrorStatus(answer.status)]
        ELSE IF answer.items = <<>> THEN [a EXCEPT !.pc = "returned"]
        ELSE LET w == PvItems(a, answer.items, 1)
             IN  IF w.pc = "returned" THEN w
                 ELSE IF answer.current_page >= answer.total_pages
                 THEN [w EXCEPT !.pc = "returned"]
                 ELSE PvNextPage(w, v.page + 1)

\* get_download_url is entered and sends its request (lines 432-441).
PvUrlEnter ==
    [IdlePv EXCEPT !.fn = "get_download_url", !.pc = "request",
                   !.requests = <<1>>]

\* get_download_url: the answer to the request (lines 443-479). With a 200
\* the URL of the quality is returned, or APIError 404 raised when the
\* answer offers none.
get_download_url(v, answer) ==
    LET a == [v EXCEPT !.answers = Append(@, answer)]
    IN  IF answer.status # 200
        THEN [a EXCEPT !.pc = "raised", !.raised = ApiErrorStatus(answer.status)]
        ELSE IF answer.items = <<>>
        THEN [a EXCEPT !.pc = "raised", !.raised = 404]
        ELSE [a EXCEPT !.pc = "returned"]

----------------------------------------------------------------------------
(* Orchestration state machine (Step Functions).                            *)
(*                                                                          *)
(* JSON objects are records; a JSONPath '$.a' resolves in an object iff a   *)
(* is in the record's domain. A path of Parameters or ResultSelector that   *)
(* does not resolve fails the state with States.Runtime, which no Catch     *)
(* handles and which ends the execution as FAILED. An execution x is        *)
(* [state, status, error, data, iters, published, listed]: iters are the    *)
(* iterations of the Map, published the notifications sent, listed the      *)
(* ledger status of every listed item when the lister ran.                  *)

max_concurrency == 5    \* iterations of the DownloadVideos Map that run at once
max_attempts == 3       \* retries of the DownloadVideo task

Has(obj, fields) == fields \subseteq DOMAIN obj

Pick(obj, fields) == [f \in fields |-> obj[f]]

\* ResultPath: the object with value stored under key.
Put(obj, key, value) ==
    [k \in DOMAIN obj \cup {key} |-> IF k = key THEN value ELSE obj[k]]

IdleSfn ==
    [state |-> "idle", status |-> "NONE", error |-> "", data |-> NoItem,
     iters |-> <<>>, published |-> <<>>, listed |-> NoItem]

Enter(x, state) == [x EXCEPT !.state = state]

\* The execution ends as FAILED in the current state.
FailExecution(x, error) == [x EXCEPT !.status = "FAILED", !.error = error]

\* A Succeed state.
Succeed(x, state) == [x EXCEPT !.state = state, !.status = "SUCCEEDED"]

\* A Fail state.
Fail(x, state, error) ==
    [x EXCEPT !.state = state, !.status = "FAILED", !.error = error]

\* The error object a Catch stores under its ResultPath.
ErrorInfo(error) == [Error |-> error, Cause |-> "cause"]

\* GenerateCorrelationId (Pass, ResultPath $.context), then ValidateTokens.
GenerateCorrelationId(x) ==
    Enter([x EXCEPT !.status = "RUNNING",
                    !.data = [context |-> [correlation_id |-> "run",
                                           execution_id |-> "run",
                                           start_time |-> "t0",
                                           provider |-> "gopro"]]],
          "ValidateTokens")

\* What the token validator's handler returns (its three return statements:
\* valid, expired, error) or raises (a failing publish inside an except).
TokenValidatorOutcomes ==
    { [kind |-> "payload",
       payload |-> [statusCode |-> 200, valid |-> TRUE, cookie_age_days |-> 1,
                    validation_method |-> method, duration_seconds |-> 1,
                    correlation_id |-> "run"]] :
          method \in {"minimal_cookies", "full_cookies"} }
    \cup
    { [kind |-> "payload",
       payload |-> [statusCode |-> code, valid |-> FALSE, cookie_age_days |-> 1,
                    error |-> IF code = 401 THEN "TokenExpiredError"
                                            ELSE "AuthenticationError",
                    message |-> "failed", correlation_id |-> "run"]] :
          code \in {401, 500} }
    \cup {[kind |-> "error", error |-> "Exception"]}

\* The states after a task of the critical path failed with an error its
\* Catch handles: the error is stored under $.error, then
\* NotifyCriticalFailure.
CatchCritical(x, error) ==
    Enter([x EXCEPT !.data = Put(@, "error", ErrorInfo(error))],
          "NotifyCriticalFailure")

\* CheckTokenValidity (Choice).
CheckTokenValidity(x) ==
    IF x.data.validation.valid = TRUE
    THEN Enter(x, "ListMedia")
    ELSE Fail(x, "TokensInvalid", "TokenValidationFailed")

ValidateTokensSelector ==
    {"statusCode", "valid", "cookie_age_days", "validation_method",
     "duration_seconds"}

\* ValidateTokens (LambdaInvoke, ResultSelector, ResultPath $.validation,
\* Catch States.ALL), then CheckTokenValidity.
ValidateTokens(x, outcome) ==
    IF outcome.kind = "error" THEN CatchCritical(x, outcome.error)
    ELSE IF ~Has(outcome.payload, ValidateTokensSelector)
    THEN FailExecution(x, "States.Runtime")
    ELSE CheckTokenValidity(
            [x EXCEPT !.data = Put(@, "validation",
                                   Pick(outcome.payload, ValidateTokensSelector))])

\* The dictionary list_media_from_provider builds for a listed item.
VideoDict(m) ==
    [media_id |-> m, filename |-> Catalog[m].filename, download_url |-> "url",
     file_size |-> Catalog[m].file_size, upload_date |-> Catalog[m].upload_date,
     duration |-> 60, media_type |-> "video", resolution |-> "unknown"]

\* validate_video_metadata: 'not video.get(field)' for the required fields,
\* so an item with file_size 0 is skipped like one without a file_size.
ValidVideo(video) ==
    /\ video.media_id # "" /\ video.filename # ""
    /\ video.download_url # "" /\ video.file_size # 0

\* The media ids of the dictionaries list_media_from_provider returns for a
\* remote list: the items that pass validate_video_metadata, in order.
RECURSIVE ValidatedIds(_)
ValidatedIds(remote) ==
    IF remote = <<>> THEN <<>>
    ELSE (IF ValidVideo(VideoDict(Head(remote))) THEN <<Head(remote)>> ELSE <<>>)
            \o ValidatedIds(Tail(remote))

\* The ways a diff in position d can end against the table, over the
\* answers of the store to its requests.
RECURSIVE DiffOutcomes(_, _)
DiffOutcomes(d, table) ==
    IF d.pc # "request" THEN {d}
    ELSE UNION ({DiffOutcomes(BatchResponse(d, table, processed), table) :
                    processed \in SUBSET d.pending}
                \cup {DiffOutcomes(BatchError(d), table)})

\* What the media lister's handler returns for a remote list: its success
\* return with the diff of the validated items (lines 105-114), its error
\* returns (lines 138-143, 159-164), or an exception (a failing publish
\* inside an except).
MediaListerOutcomes(remote, table) ==
    LET all_videos == ValidatedIds(remote)
    IN  { [kind |-> "payload",
           payload |-> [statusCode |-> 200, provider |-> "gopro",
                        new_videos |-> [j \in 1..Len(d.new_videos) |->
                                           VideoDict(d.new_videos[j])],
                        total_found |-> Len(all_videos),
                        new_count |-> Len(d.new_videos),
                        already_synced |-> Len(all_videos) - Len(d.new_videos),
                        duration_seconds |-> 1, correlation_id |-> "run"]] :
              d \in DiffOutcomes(filter_new_videos(IdleDiff, all_videos), table) }
        \cup
        { [kind |-> "payload",
           payload |-> [statusCode |-> 500, error |-> error,
                        message |-> "failed", correlation_id |-> "run"]] :
              error \in {"APIError", "ProviderError"} }
        \cup {[kind |-> "error", error |-> "Exception"]}

\* One iteration of the DownloadVideos Map per item of $.media.new_videos,
\* its input built by the Map's Parameters.
MapIterations(x) ==
    [j \in 1..Len(x.data.media.new_videos) |->
        [status |-> "pending", attempts |-> 0, invoked |-> FALSE,
         raised |-> FALSE, errorType |-> "", raised_in |-> "",
         output |-> NoItem, error |-> "",
         input |-> [video |-> x.data.media.new_videos[j],
                    correlation_id |-> x.data.context.correlation_id]]]

\* CheckNewVideos (Choice): the Map when $.media.new_count > 0, else NoNewVideos.
CheckNewVideos(x) ==
    IF x.data.media.new_count > 0
    THEN Enter([x EXCEPT !.iters = MapIterations(x)], "DownloadVideos")
    ELSE Succeed(x, "NoNewVideos")

ListMediaSelector ==
    {"statusCode", "provider", "new_videos", "total_found", "new_count",
     "already_synced"}

\* ListMedia (LambdaInvoke, ResultSelector, ResultPath $.media, Catch
\* States.ALL), then CheckNewVideos.
ListMedia(x, outcome) ==
    IF outcome.kind = "error" THEN CatchCritical(x, outcome.error)
    ELSE IF ~Has(outcome.payload, ListMediaSelector)
    THEN FailExecution(x, "States.Runtime")
    ELSE CheckNewVideos(
            [x EXCEPT !.data = Put(@, "media",
                                   Pick(outcome.payload, ListMediaSelector))])

\* NotifyCriticalFailure (SnsPublish, its message built from $.context and
\* $.error), then the Fail state SyncFailed.
NotifyCriticalFailure(x, published) ==
    IF ~(Has(x.data, {"context", "error"}) /\ Has(x.data.error, {"Cause", "Error"}))
    THEN FailExecution(x, "States.Runtime")
    ELSE IF ~published THEN FailExecution(x, "States.TaskFailed")
    ELSE Fail([x EXCEPT !.published = Append(@, "GoPro Sync Critical Failure")],
              "SyncFailed", "SyncExecutionFailed")

\* NotifyPartialFailure (SnsPublish, its message built from $.summary), then
\* the Succeed state SyncComplete.
NotifyPartialFailure(x, published) ==
    IF ~Has(x.data, {"summary"})
    THEN FailExecution(x, "States.Runtime")
    ELSE IF ~published THEN FailExecution(x, "States.TaskFailed")
    ELSE Succeed([x EXCEPT !.published = Append(@, "GoPro Sync Partial Failure")],
                 "SyncComplete")

\* An iteration of the Map ends: with the output of its last state, or
\* failed with an error no state of the iterator handled.
IterationSucceeds(it, output) == [it EXCEPT !.status = "succeeded", !.output = output]

IterationFails(it, error) == [it EXCEPT !.status = "failed", !.error = error]

\* VideoComplete (Pass): Parameters from $.media_id, $.s3_key, $.bytes_transferred.
VideoComplete(it, input) ==
    IF ~Has(input, {"media_id", "s3_key", "bytes_transferred"})
    THEN IterationFails(it, "States.Runtime")
    ELSE IterationSucceeds(it, [status |-> "COMPLETED", media_id |-> input.media_id,
                                s3_key |-> input.s3_key,
                                bytes_transferred |-> input.bytes_transferred])

\* MarkVideoFailed (Pass): Parameters from $.media_id and $.error.
MarkVideoFailed(it, input) ==
    IF ~Has(input, {"media_id", "error"})
    THEN IterationFails(it, "States.Runtime")
    ELSE IterationSucceeds(it, [status |-> "FAILED", media_id |-> input.media_id,
                                error |-> input.error])

\* The fields of $.video the payload of DownloadVideo is built from.
DownloadVideoPaths ==
    {"media_id", "filename", "download_url", "file_size", "upload_date", "duration"}

\* The payload of DownloadVideo: the video downloader's event.
DownloadVideoPayload(input) ==
    [provider |-> "gopro", media_id |-> input.video.media_id,
     filename |-> input.video.filename, download_url |-> input.video.download_url,
     file_size |-> input.video.file_size, upload_date |-> input.video.upload_date,
     duration |-> input.video.duration, correlation_id |-> input.correlation_id]

\* An iteration enters DownloadVideo: the payload is built and the video
\* downloader invoked.
DownloadVideoStarts(it) ==
    IF ~(Has(it.input, {"video", "correlation_id"})
         /\ Has(it.input.video, DownloadVideoPaths))
    THEN IterationFails(it, "States.Runtime")
    ELSE [it EXCEPT !.status = "running"]

DownloadVideoSelector ==
    {"statusCode", "media_id", "s3_key", "bytes_transferred",
     "transfer_duration", "error"}

\* The errors the Retry of DownloadVideo names.
DownloadVideoRetries == {"NetworkError", "TimeoutError"}

\* DownloadVideo (LambdaInvoke) once the invocation has ended: the
\* ResultSelector and VideoComplete on a payload; on an error the Retry, then
\* the Catch of States.ALL with ResultPath $.error and MarkVideoFailed.
DownloadVideo(it, outcome) ==
    LET inv == [it EXCEPT !.invoked = TRUE, !.raised = (outcome.kind = "error"),
                          !.errorType = IF outcome.kind = "error"
                                        THEN outcome.error ELSE "",
                          !.raised_in = IF outcome.kind = "error"
                                        THEN outcome.call ELSE ""]
    IN  IF outcome.kind = "error"
        THEN IF outcome.error \in DownloadVideoRetries /\ it.attempts < max_attempts
             THEN [inv EXCEPT !.attempts = @ + 1]
             ELSE MarkVideoFailed(inv, Put(it.input, "error", ErrorInfo(outcome.error)))
        ELSE IF ~Has(outcome.payload, DownloadVideoSelector)
             THEN IterationFails(inv, "States.Runtime")
             ELSE VideoComplete(inv, Pick(outcome.payload, DownloadVideoSelector))

\* CheckForFailures (Choice): IsPresent of the download results whose
\* statusCode is not 200, then NotifyPartialFailure or SyncComplete.
CheckForFailures(x) ==
    IF \E j \in 1..Len(x.data.download_results) :
          \/ ~Has(x.data.download_results[j], {"statusCode"})
          \/ x.data.download_results[j].statusCode # 200
    THEN Enter(x, "NotifyPartialFailure")
    ELSE Succeed(x, "SyncComplete")

\* GenerateSummary (Pass, ResultPath $.summary), then CheckForFailures.
GenerateSummary(x) ==
    IF ~(/\ Has(x.data, {"context", "media", "download_results", "validation"})
         /\ Has(x.data.context, {"execution_id", "correlation_id", "start_time"})
         /\ Has(x.data.media, {"new_count", "total_found", "already_synced"})
         /\ Has(x.data.validation, {"cookie_age_days"}))
    THEN FailExecution(Enter(x, "GenerateSummary"), "States.Runtime")
    ELSE CheckForFailures(
            [x EXCEPT !.data = Put(@, "summary",
                [execution_id |-> x.data.context.execution_id,
                 correlation_id |-> x.data.context.correlation_id,
                 start_time |-> x.data.context.start_time,
                 total_videos |-> x.data.media.new_count,
                 total_found |-> x.data.media.total_found,
                 already_synced |-> x.data.media.already_synced,
                 download_results |-> x.data.download_results,
                 cookie_age_days |-> x.data.validation.cookie_age_days])])

\* DownloadVideos (Map, ResultPath $.download_results, no Catch) after one of
\* its iterations changed: a failed iteration fails the Map and with it the
\* execution; when every iteration has succeeded, GenerateSummary follows.
DownloadVideos(x) ==
    IF \E j \in 1..Len(x.iters) : x.iters[j].status = "failed"
    THEN FailExecution(x, "States.Runtime")
    ELSE IF \A j \in 1..Len(x.iters) : x.iters[j].status = "succeeded"
    THEN GenerateSummary(
            [x EXCEPT !.data = Put(@, "download_results",
                [j \in 1..Len(x.iters) |-> x.iters[j].output])])
    ELSE x

Running(x) == {j \in 1..Len(x.iters) : x.iters[j].status = "running"}

----------------------------------------------------------------------------
(* Specification of the transfer engine and the ledger: video downloader    *)
(* invocations for any media items, one after the other, each call of an    *)
(* invocation a step.                                                       *)

\* The video downloader is invoked for media item m.
InvokeDownloader(m) ==
    /\ ~InFlight(dl)
    /\ started < MaxInvocations
    /\ dl' = Invoke(DownloadEvent(m))
    /\ started' = started + 1
    /\ UNCHANGED <<now, ledger, s3, diff, tv, sfn, tvh, secret, rot, rt, pv, ml, up, failed>>

\* The invocation in flight makes its next call.
DownloaderStep ==
    /\ InFlight(dl)
    /\ \E c \in DlStep([d |-> dl, ledger |-> ledger, s3 |-> s3], now) :
          /\ dl' = c.d
          /\ ledger' = c.ledger
          /\ s3' = c.s3
    /\ UNCHANGED <<now, started, diff, tv, sfn, tvh, secret, rot, rt, pv, ml, up, failed>>

\* The calendar month advances.
Tick ==
    /\ now < MaxNow
    /\ now' = now + 1
    /\ UNCHANGED <<ledger, s3, dl, started, diff, tv, sfn, tvh, secret, rot, rt, pv, ml, up, failed>>

Init ==
    /\ now = 1
    /\ ledger = [m \in MediaIds |-> NoItem]
    /\ s3 = [k \in AllKeys |-> NoObject]
    /\ dl = IdleSlot
    /\ started = 0
    /\ diff = IdleDiff
    /\ tv = IdleTv
    /\ sfn = IdleSfn
    /\ tvh = IdleTvh
    /\ secret = InitialCredentials
    /\ rot = IdleRot
    /\ rt = IdleRt
    /\ pv = IdlePv
    /\ ml = IdleMl
    /\ up = NoCall
    /\ failed = {}

Next ==
    \/ \E m \in MediaIds : InvokeDownloader(m)
    \/ DownloaderStep
    \/ Tick

Spec == Init /\ [][Next]_vars

----------------------------------------------------------------------------
(* Properties of the transfer engine and the ledger (checked under Spec).   *)

\* The media id of the invocation in flight (or of the last one).
DlMedia == dl.event.media_id

\* The storage key the handler computes for the event at time t.
KeyOf(event, t) ==
    generate_s3_key(event_get(event, "provider", "gopro"), event.filename,
                    event_get(event, "upload_date", <<>>), t)

\* C2: a ledger record whose status is COMPLETED is never subsequently
\* written to IN_PROGRESS or PENDING (by any step of any invocation).
C2_CompletedNeverRegresses ==
    [][\A m \in MediaIds :
          Status(ledger[m]) = "COMPLETED"
              => Status(ledger'[m]) \notin {"IN_PROGRESS", "PENDING"}]_vars

C5_NotFoundNeverFailed ==
    [][(dl.saw404 /\ ledger' # ledger)
          => /\ Status(ledger'[DlMedia]) = "COMPLETED"
             /\ "note" \in DOMAIN ledger'[DlMedia]
             /\ ledger'[DlMedia].note = "source_deleted"]_vars

\* An invocation all of whose calls (credentials, object store, provider,
\* ledger, metrics) succeeded and that has returned.
CleanReturn ==
    dl.pc = "done" /\ dl.err = "" /\ dl.head # "error" /\ ~dl.saw404

\* C7: after an invocation for an item in which every call succeeded, the
\* item's ledger status is COMPLETED, whatever an earlier failed invocation
\* left behind.
C7_CleanRunCompletes ==
    CleanReturn => Status(ledger[DlMedia]) = "COMPLETED"

----------------------------------------------------------------------------
(* Specification of the media lister's diff against a ledger that video     *)
(* downloader invocations write while the lister runs.                      *)

\* The lister diffs a remote list: the first diff of a pair.
DiffFirst(videos) ==
    /\ diff.pc = "idle"
    /\ diff' = filter_new_videos([IdleDiff EXCEPT !.run = 1], videos)
    /\ UNCHANGED <<now, ledger, s3, dl, started, tv, sfn, tvh, secret, rot, rt, pv, ml, up, failed>>

\* The lister diffs the same list again (the next run).
DiffAgain ==
    /\ diff.pc = "done" /\ diff.run = 1
    /\ diff' = filter_new_videos(
                  [diff EXCEPT !.run = 2,
                               !.first = [new_videos |-> diff.new_videos,
                                          lost |-> diff.lost]],
                  diff.videos)
    /\ UNCHANGED <<now, ledger, s3, dl, started, tv, sfn, tvh, secret, rot, rt, pv, ml, up, failed>>

\* The lister's handler returns.
DiffReturn ==
    /\ diff.pc = "done"
    /\ diff' = IdleDiff
    /\ UNCHANGED <<now, ledger, s3, dl, started, tv, sfn, tvh, secret, rot, rt, pv, ml, up, failed>>

\* The ledger store answers a request, leaving any subset of its keys unprocessed.
BatchGetItem ==
    /\ diff.pc = "request"
    /\ \E processed \in SUBSET diff.pending :
          diff' = BatchResponse(diff, ledger, processed)
    /\ UNCHANGED <<now, ledger, s3, dl, started, tv, sfn, tvh, secret, rot, rt, pv, ml, up, failed>>

\* The ledger store fails a request.
BatchGetItemFails ==
    /\ diff.pc = "request"
    /\ diff' = BatchError(diff)
    /\ UNCHANGED <<now, ledger, s3, dl, started, tv, sfn, tvh, secret, rot, rt, pv, ml, up, failed>>

\* A video downloader invocation writes the status of an item
\* (update_sync_status with IN_PROGRESS, COMPLETED or FAILED).
DownloaderWrites(m, status) ==
    /\ ledger' = [ledger EXCEPT ![m] = update_sync_status(@, status, NoItem, now)]
    /\ ledger' # ledger
    /\ diff' = [diff EXCEPT !.changed = (diff.pc # "idle")]
    /\ UNCHANGED <<now, s3, dl, started, tv, sfn, tvh, secret, rot, rt, pv, ml, up, failed>>

NextDiff ==
    \/ \E videos \in RemoteLists : DiffFirst(videos)
    \/ DiffAgain
    \/ DiffReturn
    \/ BatchGetItem
    \/ BatchGetItemFails
    \/ \E m \in MediaIds, status \in {"IN_PROGRESS", "COMPLETED", "FAILED"} :
          DownloaderWrites(m, status)

SpecDiff == Init /\ [][NextDiff]_vars

----------------------------------------------------------------------------
(* Properties of the diff (checked under SpecDiff).                         *)

Range(s) == {s[j] : j \in 1..Len(s)}

\* C1: filter_new_videos returns exactly the items of the list whose status,
\* as the batched lookup returned it, is absent or different from COMPLETED,
\* each once.
C1_FilterReturnsExactlyNonCompleted ==
    diff.pc = "done" =>
        /\ \A m \in MediaIds :
              m \in Range(diff.new_videos) <=>
                  /\ m \in Range(diff.videos)
                  /\ \/ m \notin DOMAIN diff.sync_statuses
                     \/ diff.sync_statuses[m] # "COMPLETED"
        /\ Len(diff.new_videos) = Cardinality(Range(diff.new_videos))

\* C1 witness: a diff returned a FAILED item and an item the lookup omitted,
\* and left out an item the lookup reported COMPLETED.
C1_Witness ==
    /\ diff.pc = "done"
    /\ \E a \in Range(diff.videos) \ Range(diff.new_videos) :
          diff.sync_statuses[a] = "COMPLETED"
    /\ \E b \in Range(diff.new_videos) :
          \/ b \in DOMAIN diff.sync_statuses /\ diff.sync_statuses[b] = "FAILED"
          \/ b \notin DOMAIN diff.sync_statuses /\ Status(ledger[b]) = "COMPLETED"

\* The second diff of a pair has returned and the ledger was not written
\* since the first began.
SecondDiffUnchanged ==
    diff.pc = "done" /\ diff.run = 2 /\ ~diff.changed

----------------------------------------------------------------------------
(* Specification of the token validator's validate_cookies.                 *)

\* validate_cookies is called with the stored credentials' cookies.
TvValidate(cookies) ==
    /\ tv.pc \in {"idle", "returned", "raised"}
    /\ tv' = validate_cookies(cookies)
    /\ UNCHANGED <<now, ledger, s3, dl, started, diff, sfn, tvh, secret, rot, rt, pv, ml, up, failed>>

\* The provider answers the test call of phase 1.
TvMinimalProbe(outcome) ==
    /\ tv.pc = "minimal"
    /\ tv' = ValidateMinimal(tv, outcome)
    /\ UNCHANGED <<now, ledger, s3, dl, started, diff, sfn, tvh, secret, rot, rt, pv, ml, up, failed>>

\* The provider answers the test call of phase 2.
TvFullProbe(outcome) ==
    /\ tv.pc = "full"
    /\ tv' = ValidateFull(tv, outcome)
    /\ UNCHANGED <<now, ledger, s3, dl, started, diff, sfn, tvh, secret, rot, rt, pv, ml, up, failed>>

NextTV ==
    \/ \E cookies \in CookieStrings : TvValidate(cookies)
    \/ \E outcome \in ApiOutcomes : TvMinimalProbe(outcome)
    \/ \E outcome \in ApiOutcomes : TvFullProbe(outcome)

SpecTV == Init /\ [][NextTV]_vars

\* The phases of the probes made so far, in order.
Phases == [j \in 1..Len(tv.probes) |-> tv.probes[j].phase]

TvDone == tv.pc \in {"returned", "raised"}

\* The cookies hold a non-empty gp_access_token and a non-empty gp_user_id.
HasMinimalTokens ==
    /\ \E j \in 1..Len(tv.cookies) :
          tv.cookies[j].name = "gp_access_token" /\ tv.cookies[j].value # ""
    /\ \E j \in 1..Len(tv.cookies) :
          tv.cookies[j].name = "gp_user_id" /\ tv.cookies[j].value # ""

----------------------------------------------------------------------------
(* Specification of the orchestration: executions of the state machine, one *)
(* after the other, its tasks answered by the Lambda functions and the      *)
(* notification topic, the video downloader invocations of the Map acting   *)
(* on the ledger and the object store.                                      *)

SfnRunning == sfn.status = "RUNNING"

\* The schedule starts an execution.
StartExecution ==
    /\ ~SfnRunning /\ Running(sfn) = {}
    /\ sfn' = GenerateCorrelationId(IdleSfn)
    /\ UNCHANGED <<now, ledger, s3, dl, started, diff, tv, tvh, secret, rot, rt, pv, ml, up, failed>>

\* The token validator answers ValidateTokens.
ValidateTokensTask ==
    /\ SfnRunning /\ sfn.state = "ValidateTokens"
    /\ \E outcome \in TokenValidatorOutcomes : sfn' = ValidateTokens(sfn, outcome)
    /\ UNCHANGED <<now, ledger, s3, dl, started, diff, tv, tvh, secret, rot, rt, pv, ml, up, failed>>

\* The media lister answers ListMedia for what the provider lists.
ListMediaTask ==
    /\ SfnRunning /\ sfn.state = "ListMedia"
    /\ \E remote \in RemoteLists :
          \E outcome \in MediaListerOutcomes(remote, ledger) :
              sfn' = ListMedia(
                        [sfn EXCEPT !.listed =
                            [m \in Range(ValidatedIds(remote)) |-> Status(ledger[m])]],
                        outcome)
    /\ UNCHANGED <<now, ledger, s3, dl, started, diff, tv, tvh, secret, rot, rt, pv, ml, up, failed>>

\* The topic answers the publish of a notification state.
NotifyTask ==
    /\ SfnRunning
    /\ \E published \in BOOLEAN :
          \/ /\ sfn.state = "NotifyCriticalFailure"
             /\ sfn' = NotifyCriticalFailure(sfn, published)
          \/ /\ sfn.state = "NotifyPartialFailure"
             /\ sfn' = NotifyPartialFailure(sfn, published)
    /\ UNCHANGED <<now, ledger, s3, dl, started, diff, tv, tvh, secret, rot, rt, pv, ml, up, failed>>

\* The Map starts one of its iterations, at most max_concurrency at once.
IterationStarts(i) ==
    /\ SfnRunning /\ sfn.state = "DownloadVideos"
    /\ i \in DOMAIN sfn.iters
    /\ sfn.iters[i].status = "pending"
    /\ Cardinality(Running(sfn)) < max_concurrency
    /\ sfn' = DownloadVideos([sfn EXCEPT !.iters[i] = DownloadVideoStarts(@)])
    /\ UNCHANGED <<now, ledger, s3, dl, started, diff, tv, tvh, secret, rot, rt, pv, ml, up, failed>>

\* The video downloader invocation of an iteration ends, having acted on the
\* ledger and the object store; DownloadVideo and the states after it follow
\* unless the execution has ended meanwhile.
InvocationEnds(i) ==
    /\ i \in Running(sfn)
    /\ started < MaxInvocations
    /\ started' = started + 1
    /\ \E c \in RunToEnd([d |-> Invoke(DownloadVideoPayload(sfn.iters[i].input)),
                          ledger |-> ledger, s3 |-> s3], now) :
          /\ ledger' = c.ledger
          /\ s3' = c.s3
          /\ sfn' = IF SfnRunning
                    THEN DownloadVideos(
                            [sfn EXCEPT !.iters[i] = DownloadVideo(@, DownloaderOutcome(c.d))])
                    ELSE [sfn EXCEPT !.iters[i] =
                            [@ EXCEPT !.status = "aborted", !.invoked = TRUE,
                                      !.raised = (c.d.result = "raised")]]
    /\ UNCHANGED <<now, dl, diff, tv, tvh, secret, rot, rt, pv, ml, up, failed>>

NextSfn ==
    \/ StartExecution
    \/ ValidateTokensTask
    \/ ListMediaTask
    \/ NotifyTask
    \/ \E i \in 1..MaxListed : IterationStarts(i)
    \/ \E i \in 1..MaxListed : InvocationEnds(i)

SpecSfn == Init /\ [][NextSfn]_vars

----------------------------------------------------------------------------
(* Properties of the orchestration (checked under SpecSfn).                 *)

\* The execution has ended and no invocation of its Map is still running.
ExecutionOver ==
    sfn.status \in {"SUCCEEDED", "FAILED"} /\ Running(sfn) = {}

IterationMedia(j) == sfn.iters[j].input.video.media_id

\* C3: when the video downloader raised for an item of the fan-out, the
\* execution still ends in SyncComplete and every item of the fan-out has a
\* terminal ledger status (COMPLETED or FAILED).
C3_FailedItemDoesNotAbortRun ==
    (ExecutionOver /\ \E j \in DOMAIN sfn.iters : sfn.iters[j].raised)
        => /\ sfn.state = "SyncComplete" /\ sfn.status = "SUCCEEDED"
           /\ \A j \in DOMAIN sfn.iters :
                 Status(ledger[IterationMedia(j)]) \in {"COMPLETED", "FAILED"}

\* C6: in an execution whose listing succeeded, every listed item whose
\* ledger status was FAILED or IN_PROGRESS when the lister ran is among the
\* new videos and its video downloader invocation has been made when the
\* execution is over.
C6_UnfinishedItemsAreInvoked ==
    (ExecutionOver /\ "media" \in DOMAIN sfn.data)
        => \A m \in DOMAIN sfn.listed :
              sfn.listed[m] \in {"FAILED", "IN_PROGRESS"}
                  => \E j \in DOMAIN sfn.iters :
                        IterationMedia(j) = m /\ sfn.iters[j].invoked

----------------------------------------------------------------------------
(* Specification of the token validator's handler: its calls to Secrets     *)
(* Manager, CloudWatch, the provider (through validate_cookies) and SNS.    *)

\* The token validator is invoked.
TvhStart ==
    /\ tvh.pc \in {"idle", "done"}
    /\ tvh' = TvhInvoke
    /\ tv' = IdleTv
    /\ UNCHANGED <<now, ledger, s3, dl, started, diff, sfn, secret, rot, rt, pv, ml, up, failed>>

\* Secrets Manager answers retrieve_credentials.
TvhCredentialsStep(ok, cookies) ==
    /\ tvh.pc = "creds"
    /\ tvh' = TvhCredentials(tvh, ok, cookies)
    /\ UNCHANGED <<now, ledger, s3, dl, started, diff, tv, sfn, secret, rot, rt, pv, ml, up, failed>>

\* CloudWatch answers the CookieAgeDays metric; validate_cookies is called.
TvhAgeMetricStep(ok) ==
    /\ tvh.pc = "age_metric"
    /\ tvh' = TvhAgeMetric(tvh, ok)
    /\ tv' = IF ok THEN validate_cookies(tvh.cookies) ELSE tv
    /\ UNCHANGED <<now, ledger, s3, dl, started, diff, sfn, secret, rot, rt, pv, ml, up, failed>>

\* validate_cookies hands its result or its exception to the handler.
TvhValidatedStep ==
    /\ tvh.pc = "validate"
    /\ tv.pc \in {"returned", "raised"}
    /\ tvh' = TvhValidated(tvh, tv)
    /\ UNCHANGED <<now, ledger, s3, dl, started, diff, tv, sfn, secret, rot, rt, pv, ml, up, failed>>

\* CloudWatch answers the success metrics; the handler returns 200.
TvhSuccessStep(ok) ==
    /\ tvh.pc = "ok_metrics"
    /\ tvh' = TvhSuccess(tvh, tv, ok)
    /\ UNCHANGED <<now, ledger, s3, dl, started, diff, tv, sfn, secret, rot, rt, pv, ml, up, failed>>

\* Secrets Manager answers the second read, made in an except clause.
TvhFailureAgeStep(ok) ==
    /\ tvh.pc = "x_creds"
    /\ tvh' = TvhFailureAge(tvh, ok)
    /\ UNCHANGED <<now, ledger, s3, dl, started, diff, tv, sfn, secret, rot, rt, pv, ml, up, failed>>

\* CloudWatch answers the ValidationFailure metric of an except clause.
TvhFailureMetricStep(ok) ==
    /\ tvh.pc = "x_metric"
    /\ tvh' = TvhFailureMetric(tvh, ok)
    /\ UNCHANGED <<now, ledger, s3, dl, started, diff, tv, sfn, secret, rot, rt, pv, ml, up, failed>>

\* SNS answers the expiration alert; the handler returns 401.
TvhAlertStep(ok) ==
    /\ tvh.pc = "alert"
    /\ tvh' = TvhAlert(tvh, ok)
    /\ UNCHANGED <<now, ledger, s3, dl, started, diff, tv, sfn, secret, rot, rt, pv, ml, up, failed>>

NextTVH ==
    \/ TvhStart
    \/ \E ok \in BOOLEAN, cookies \in CookieStrings : TvhCredentialsStep(ok, cookies)
    \/ \E ok \in BOOLEAN : TvhAgeMetricStep(ok)
    \/ \E outcome \in ApiOutcomes : TvMinimalProbe(outcome)
    \/ \E outcome \in ApiOutcomes : TvFullProbe(outcome)
    \/ TvhValidatedStep
    \/ \E ok \in BOOLEAN : TvhSuccessStep(ok)
    \/ \E ok \in BOOLEAN : TvhFailureAgeStep(ok)
    \/ \E ok \in BOOLEAN : TvhFailureMetricStep(ok)
    \/ \E ok \in BOOLEAN : TvhAlertStep(ok)

SpecTVH == Init /\ [][NextTVH]_vars

\* validate_cookies ended with TokenExpiredError in this invocation.
ValidationExpired == tv.pc = "raised" /\ tv.error = "TokenExpiredError"

\* C11: when validation ended in TokenExpired, the handler ends by returning
\* its 401 response (valid false), the TOKEN_EXPIRATION alert having been
\* handed to SNS before; a failed publish is logged and not propagated.
C11_ExpiredAlertsBeforeReturn ==
    (tvh.pc = "done" /\ ValidationExpired)
        => /\ tvh.raised = ""
           /\ tvh.alert \in {"published", "failed"}
           /\ tvh.response = [statusCode |-> 401, valid |-> FALSE,
                              cookie_age_days |-> tvh.cookie_age_days,
                              error |-> "TokenExpiredError", message |-> "failed",
                              correlation_id |-> "run"]

----------------------------------------------------------------------------
(* Specification of whole executions: the state machine with the token      *)
(* validator's handler run inside its ValidateTokens task.  The task's      *)
(* retrier matches Lambda.ServiceException and                              *)
(* Lambda.TooManyRequestsException only (orchestration_construct.py lines   *)
(* 136-141), errors of the Lambda service that are not among the outcomes   *)
(* here; no error of the handler matches it.                                *)

\* What the ValidateTokens task gets from a finished handler invocation: the
\* returned payload, or the function error named after the exception class.
TvhOutcome(h) ==
    IF h.raised # "" THEN [kind |-> "error", error |-> h.raised]
    ELSE [kind |-> "payload", payload |-> h.response]

\* ValidateTokens invokes the token validator.
ValidateTokensInvokes ==
    /\ SfnRunning /\ sfn.state = "ValidateTokens"
    /\ tvh.pc \in {"idle", "delivered"}
    /\ tvh' = TvhInvoke
    /\ tv' = IdleTv
    /\ UNCHANGED <<now, ledger, s3, dl, started, diff, sfn, secret, rot, rt, pv, ml, up, failed>>

\* The invocation has ended: ValidateTokens applies its ResultSelector or
\* its Catch, and CheckTokenValidity follows.
ValidateTokensReturns ==
    /\ SfnRunning /\ sfn.state = "ValidateTokens"
    /\ tvh.pc = "done"
    /\ sfn' = ValidateTokens(sfn, TvhOutcome(tvh))
    /\ tvh' = [tvh EXCEPT !.pc = "delivered"]
    /\ UNCHANGED <<now, ledger, s3, dl, started, diff, tv, secret, rot, rt, pv, ml, up, failed>>

NextRun ==
    \/ StartExecution
    \/ ValidateTokensInvokes
    \/ \E ok \in BOOLEAN, cookies \in CookieStrings : TvhCredentialsStep(ok, cookies)
    \/ \E ok \in BOOLEAN : TvhAgeMetricStep(ok)
    \/ \E outcome \in ApiOutcomes : TvMinimalProbe(outcome)
    \/ \E outcome \in ApiOutcomes : TvFullProbe(outcome)
    \/ TvhValidatedStep
    \/ \E ok \in BOOLEAN : TvhSuccessStep(ok)
    \/ \E ok \in BOOLEAN : TvhFailureAgeStep(ok)
    \/ \E ok \in BOOLEAN : TvhFailureMetricStep(ok)
    \/ \E ok \in BOOLEAN : TvhAlertStep(ok)
    \/ ValidateTokensReturns
    \/ ListMediaTask
    \/ NotifyTask
    \/ \E i \in 1..MaxListed : IterationStarts(i)
    \/ \E i \in 1..MaxListed : InvocationEnds(i)

SpecRun == Init /\ [][NextRun]_vars

\* The provider answered 401 to the minimal and to the full probe of the
\* execution's validation.
BothProbes401 ==
    /\ tvh.pc = "delivered"
    /\ Len(tv.probes) = 2
    /\ tv.probes[1].http_code = 401 /\ tv.probes[2].http_code = 401

\* C12: an execution whose validation got 401 on both probes ends in the
\* TokensInvalid state, the expiration alert published, with the media
\* lister and the video downloader never invoked.
C12_ExpiredRunEndsTokensInvalid ==
    (ExecutionOver /\ BothProbes401)
        => /\ sfn.state = "TokensInvalid"
           /\ tvh.alert = "published"
           /\ sfn.listed = NoItem
           /\ sfn.iters = <<>>

----------------------------------------------------------------------------
(* Properties of executions under SpecSfn and SpecRun.                      *)

\* The provider listed at least one valid item to the execution's media
\* lister and every listed item was COMPLETED in the ledger at that time.
AllListedCompleted ==
    /\ DOMAIN sfn.listed # {}
    /\ \A m \in DOMAIN sfn.listed : sfn.listed[m] = "COMPLETED"

\* C13: an execution for which every listed item is COMPLETED ends in
\* NoNewVideos, succeeded, without a video downloader invocation.
C13_AllCompletedEndsNoNewVideos ==
    (ExecutionOver /\ AllListedCompleted)
        => /\ sfn.state = "NoNewVideos" /\ sfn.status = "SUCCEEDED"
           /\ sfn.iters = <<>>

\* The execution's listing succeeded with items none of which had a ledger
\* record, and every video downloader invocation made so far returned after
\* storing the object and recording COMPLETED.
CleanFirstSync ==
    /\ "media" \in DOMAIN sfn.data
    /\ DOMAIN sfn.listed # {}
    /\ \A m \in DOMAIN sfn.listed : sfn.listed[m] = Status(NoItem)
    /\ \A j \in DOMAIN sfn.iters :
          sfn.iters[j].invoked
              => /\ ~sfn.iters[j].raised
                 /\ Status(ledger[IterationMedia(j)]) = "COMPLETED"
                 /\ "note" \notin DOMAIN ledger[IterationMedia(j)]

\* C14: an execution that lists items without ledger records and in which
\* every call succeeds hands every listed item to the video downloader,
\* leaves every one of them COMPLETED and ends in SyncComplete without a
\* partial-failure notification.
C14_CleanRunCompletesAll ==
    (ExecutionOver /\ CleanFirstSync)
        => /\ sfn.state = "SyncComplete" /\ sfn.status = "SUCCEEDED"
           /\ sfn.published = <<>>
           /\ \A m \in DOMAIN sfn.listed :
                 /\ Status(ledger[m]) = "COMPLETED"
                 /\ \E j \in DOMAIN sfn.iters :
                       IterationMedia(j) = m /\ sfn.iters[j].invoked

\* The execution's fan-out has invoked the video downloader for every item
\* of the new-items list.
FanOutDone ==
    /\ sfn.iters # <<>>
    /\ \A j \in DOMAIN sfn.iters : sfn.iters[j].invoked

\* C15: after the fan-out the execution ends in SyncComplete; the
\* partial-failure notification has been published before when the video
\* downloader raised for an item, and no notification has been published
\* when it raised for none.
C15_PartialFailureNotifiedThenComplete ==
    (ExecutionOver /\ FanOutDone)
        => /\ sfn.state = "SyncComplete" /\ sfn.status = "SUCCEEDED"
           /\ IF \E j \in DOMAIN sfn.iters : sfn.iters[j].raised
              THEN sfn.published = <<"GoPro Sync Partial Failure">>
              ELSE sfn.published = <<>>

\* The execution's validation failed for a reason other than TokenExpired:
\* the handler ended in its 'except Exception' clause.
ValidationErrored == tvh.pc = "delivered" /\ tvh.branch = "error"

\* C16: an execution whose validation failed for a reason other than
\* TokenExpired ends as a critical failure, in SyncFailed after the
\* critical-failure notification, and an execution ends in TokensInvalid
\* only when its validation ended in TokenExpired.
C16_ValidationErrorIsCritical ==
    /\ (ExecutionOver /\ ValidationErrored)
          => /\ sfn.state = "SyncFailed"
             /\ sfn.published = <<"GoPro Sync Critical Failure">>
    /\ (ExecutionOver /\ sfn.state = "TokensInvalid")
          => tvh.pc = "delivered" /\ tvh.branch = "expired"

\* The execution passed validation and its ListMedia step did not produce a
\* listing.
ListMediaFailed ==
    /\ "validation" \in DOMAIN sfn.data
    /\ "media" \notin DOMAIN sfn.data

\* C17: an execution whose ListMedia step failed ends in SyncFailed after
\* the critical-failure notification, without a video downloader
\* invocation.
C17_ListFailureIsCritical ==
    (ExecutionOver /\ ListMediaFailed)
        => /\ sfn.state = "SyncFailed" /\ sfn.status = "FAILED"
           /\ sfn.published = <<"GoPro Sync Critical Failure">>
           /\ sfn.iters = <<>>

----------------------------------------------------------------------------
(* Specification of the video downloader invoked with declared sizes around *)
(* MULTIPART_THRESHOLD.                                                     *)

\* The declared sizes (file_size of the event) around the threshold.
BoundarySizes ==
    {0, 1, MULTIPART_THRESHOLD - 1, MULTIPART_THRESHOLD, MULTIPART_THRESHOLD + 1}

\* The video downloader is invoked for an item with a declared size.
InvokeWithSize(m, file_size) ==
    /\ ~InFlight(dl)
    /\ started < MaxInvocations
    /\ dl' = Invoke([DownloadEvent(m) EXCEPT !.file_size = file_size])
    /\ started' = started + 1
    /\ UNCHANGED <<now, ledger, s3, diff, tv, sfn, tvh, secret, rot, rt, pv, ml, up, failed>>

NextSize ==
    \/ \E file_size \in BoundarySizes : InvokeWithSize("m1", file_size)
    \/ DownloaderStep

SpecSize == Init /\ [][NextSize]_vars

\* The positions of direct_upload_stream and of multipart_upload_stream.
InDirectUpload == dl.pc \in {"d_get", "d_put"}

InMultipartUpload ==
    dl.pc \in {"m_create", "m_get", "m_part", "m_complete", "m_abort"}

DeclaredSize == event_get(dl.event, "file_size", 0)

\* C18 as stated: an item whose declared size equals MULTIPART_THRESHOLD is
\* uploaded in parts and one whose size is one byte less directly.
C18_ThresholdUsesMultipart ==
    /\ (InFlight(dl) /\ DeclaredSize = MULTIPART_THRESHOLD) => ~InDirectUpload
    /\ (InFlight(dl) /\ DeclaredSize = MULTIPART_THRESHOLD - 1) => ~InMultipartUpload

\* C18 amended: an item whose declared size equals MULTIPART_THRESHOLD, or is
\* one byte less, is uploaded directly, and one whose size is one byte more
\* in parts.
C18_ThresholdUsesDirect ==
    /\ (InFlight(dl) /\ DeclaredSize = MULTIPART_THRESHOLD) => ~InMultipartUpload
    /\ (InFlight(dl) /\ DeclaredSize = MULTIPART_THRESHOLD - 1) => ~InMultipartUpload
    /\ (InFlight(dl) /\ DeclaredSize = MULTIPART_THRESHOLD + 1) => ~InDirectUpload

\* C18 witness: the object of an item of exactly MULTIPART_THRESHOLD bytes is
\* being written with put_object.
C18_Witness ==
    dl.pc = "d_put" /\ DeclaredSize = MULTIPART_THRESHOLD

----------------------------------------------------------------------------
(* Specification of the secrets rotator's handler against Secrets Manager,  *)
(* the provider and SNS.                                                    *)

\* The schedule invokes the secrets rotator.
RotStart ==
    /\ rot.pc \in {"idle", "done"}
    /\ secret.rotation_count < MaxRotations
    /\ rot' = RotInvoke
    /\ UNCHANGED <<now, ledger, s3, dl, started, diff, tv, sfn, tvh, secret, rt, pv, ml, up, failed>>

\* Secrets Manager answers retrieve_credentials.
RotRetrieveStep(ok) ==
    /\ rot.pc = "retrieve"
    /\ rot' = RotRetrieve(rot, secret, ok)
    /\ UNCHANGED <<now, ledger, s3, dl, started, diff, tv, sfn, tvh, secret, rt, pv, ml, up, failed>>

\* The provider lookup and authenticate answer an attempt of the refresh.
RotRefreshStep(outcome) ==
    /\ rot.pc = "refresh"
    /\ rot' = RotRefresh(rot, outcome)
    /\ UNCHANGED <<now, ledger, s3, dl, started, diff, tv, sfn, tvh, secret, rt, pv, ml, up, failed>>

\* The provider answers the probe of the new credentials.
RotTestStep(ok) ==
    /\ rot.pc = "test"
    /\ rot' = RotTest(rot, ok)
    /\ UNCHANGED <<now, ledger, s3, dl, started, diff, tv, sfn, tvh, secret, rt, pv, ml, up, failed>>

\* Secrets Manager answers the write of the new credentials.
RotStoreStep(outcome) ==
    /\ rot.pc = "store"
    /\ rot' = RotStore(rot, outcome)
    /\ secret' = Stored(secret, rot.new, outcome)
    /\ UNCHANGED <<now, ledger, s3, dl, started, diff, tv, sfn, tvh, rt, pv, ml, up, failed>>

\* Secrets Manager answers the rollback write.
RotRollbackStep(outcome) ==
    /\ rot.pc = "rollback"
    /\ rot' = RotRollback(rot, outcome)
    /\ secret' = IF Len(rot'.writes) > Len(rot.writes)
                 THEN Stored(secret, rot.current, outcome) ELSE secret
    /\ UNCHANGED <<now, ledger, s3, dl, started, diff, tv, sfn, tvh, rt, pv, ml, up, failed>>

\* CloudWatch answers the metrics and SNS the notification; the handler
\* returns.
RotNotifyStep(published, delivered) ==
    /\ rot.pc \in {"ok_notify", "x_metrics"}
    /\ rot' = IF rot.pc = "ok_notify" THEN RotSuccess(rot, published, delivered)
                                      ELSE RotFailure(rot, published, delivered)
    /\ UNCHANGED <<now, ledger, s3, dl, started, diff, tv, sfn, tvh, secret, rt, pv, ml, up, failed>>

NextRot ==
    \/ RotStart
    \/ \E ok \in BOOLEAN : RotRetrieveStep(ok)
    \/ \E outcome \in AuthenticateOutcomes : RotRefreshStep(outcome)
    \/ \E ok \in BOOLEAN : RotTestStep(ok)
    \/ \E outcome \in UpdateSecretOutcomes : RotStoreStep(outcome)
    \/ \E outcome \in UpdateSecretOutcomes : RotRollbackStep(outcome)
    \/ \E published \in MetricOutcomes, delivered \in BOOLEAN :
          RotNotifyStep(published, delivered)

SpecRot == Init /\ [][NextRot]_vars

\* The handler has returned the 500 response after handing the failure
\* notification to SNS.
RotFailedAndNotified ==
    /\ rot.response # NoItem
    /\ rot.response.statusCode = 500
    /\ Len(rot.notified) = 1
    /\ rot.notified[1].subject = "Secrets Rotation Failed"

\* C19: the rotator calls update_secret only after both the refresh and the
\* probe of the new credentials succeeded, and the first write carries the
\* new credentials; when the refresh or the probe fails, the run makes no
\* write, the stored secret stays as it was read, and the run ends with the
\* failure notification and the 500 response.
C19_WriteOnlyAfterRefreshAndProbe ==
    /\ rot.writes # <<>> =>
          /\ rot.refreshed /\ rot.tested
          /\ rot.writes[1].credentials = rot.new
    /\ (rot.pc = "done" /\ ~(rot.refreshed /\ rot.tested)) =>
          /\ rot.writes = <<>>
          /\ rot.current # NoItem => secret = rot.current
          /\ RotFailedAndNotified

\* A run whose probe of refreshed credentials failed has ended.
C19_Witness ==
    /\ rot.pc = "done"
    /\ rot.refreshed /\ ~rot.tested
    /\ rot.writes = <<>>
    /\ secret = rot.current
    /\ RotFailedAndNotified

\* A run that wrote the new credentials after refresh and probe has ended.
C19_WitnessStored ==
    /\ rot.pc = "done"
    /\ rot.refreshed /\ rot.tested
    /\ Len(rot.writes) = 1
    /\ secret = rot.new
    /\ rot.response.statusCode = 200

\* C20: when the write of the new credentials fails, the rotator makes
\* exactly one rollback write, of the credentials it read at the start, and
\* the run ends with the failure notification and the 500 response whether
\* or not the rollback succeeded; after a rollback that succeeded the stored
\* secret is the one read at the start.
C20_StoreFailureRollsBackOnce ==
    (rot.pc = "done" /\ rot.writes # <<>> /\ rot.writes[1].outcome # "ok") =>
        /\ Len(rot.writes) = 2
        /\ rot.writes[2].credentials = rot.current
        /\ RotFailedAndNotified
        /\ rot.response.error = "AuthenticationError"
        /\ rot.writes[2].outcome = "ok" => secret = rot.current

\* A run whose write failed and whose rollback succeeded has ended.
C20_Witness ==
    /\ rot.pc = "done"
    /\ Len(rot.writes) = 2
    /\ rot.writes[1].outcome = "lost_reply"
    /\ rot.writes[2].outcome = "ok"
    /\ secret = rot.current
    /\ secret # rot.new
    /\ RotFailedAndNotified

\* A run whose write and rollback both failed has ended.
C20_WitnessRollbackFailed ==
    /\ rot.pc = "done"
    /\ Len(rot.writes) = 2
    /\ rot.writes[1].outcome = "lost_reply"
    /\ rot.writes[2].outcome = "error"
    /\ secret = rot.new
    /\ RotFailedAndNotified

----------------------------------------------------------------------------
(* Specification of calls through the retry decorators: the decorator's     *)
(* arguments and the wrapped function's outcomes are drawn from the sets    *)
(* below.                                                                   *)

AttemptLimits == 0..4

InitialDelays == 1..3

BackoffRates == 1..2

MaxDelays == {2, 4}

ExceptionClasses == {"NetworkError", "TimeoutError", "ValueError", "APIError"}

\* retryable_exceptions: the default, one class, and (Exception,).
RetryableSets ==
    {{"NetworkError", "TimeoutError"}, {"NetworkError"}, ExceptionClasses}

\* status_codes: the default and the single code of the unit tests.
StatusCodeSets == {{429, 500, 502, 503, 504}, {503}}

\* What one call of the wrapped function does.
CallOutcomes ==
    {Returned}
        \cup {Raised(exc, NoStatus) : exc \in ExceptionClasses \ {"APIError"}}
        \cup {Raised("APIError", code) : code \in {NoStatus, 404, 429, 503}}

\* A function decorated with exponential_backoff_retry is called.
CallWithBackoff ==
    /\ rt.pc = "idle"
    /\ \E attempts \in AttemptLimits, initial_delay \in InitialDelays,
          backoff_rate \in BackoffRates, max_delay \in MaxDelays,
          retryable_exceptions \in RetryableSets :
            rt' = RtEnter("exponential_backoff_retry",
                          [max_attempts |-> attempts,
                           initial_delay |-> initial_delay,
                           backoff_rate |-> backoff_rate,
                           max_delay |-> max_delay,
                           retryable_exceptions |-> retryable_exceptions,
                           status_codes |-> {}])
    /\ UNCHANGED <<now, ledger, s3, dl, started, diff, tv, sfn, tvh, secret, rot, pv, ml, up, failed>>

\* A function decorated with retry_on_api_error is called.
CallWithApiRetry ==
    /\ rt.pc = "idle"
    /\ \E attempts \in AttemptLimits, initial_delay \in InitialDelays,
          status_codes \in StatusCodeSets :
            rt' = RtEnter("retry_on_api_error",
                          [max_attempts |-> attempts,
                           initial_delay |-> initial_delay,
                           backoff_rate |-> 0, max_delay |-> 0,
                           retryable_exceptions |-> {},
                           status_codes |-> status_codes])
    /\ UNCHANGED <<now, ledger, s3, dl, started, diff, tv, sfn, tvh, secret, rot, pv, ml, up, failed>>

\* The wrapper calls the function, which returns or raises.
WrappedCall(outcome) ==
    /\ rt.pc = "call"
    /\ rt' = IF rt.wrapper = "exponential_backoff_retry"
             THEN exponential_backoff_retry(rt, outcome)
             ELSE retry_on_api_error(rt, outcome)
    /\ UNCHANGED <<now, ledger, s3, dl, started, diff, tv, sfn, tvh, secret, rot, pv, ml, up, failed>>

NextRetry ==
    \/ CallWithBackoff
    \/ CallWithApiRetry
    \/ \E outcome \in CallOutcomes : WrappedCall(outcome)

SpecRetry == Init /\ [][NextRetry]_vars

RECURSIVE Pow(_, _)
Pow(b, e) == IF e = 0 THEN 1 ELSE b * Pow(b, e - 1)

LastCall == rt.calls[Len(rt.calls)]

UnderBackoff == rt.wrapper = "exponential_backoff_retry"

\* Calls, retries and propagation under exponential_backoff_retry: at most
\* max_attempts calls, each but the last one ended by a retryable
\* exception; the wrapper returns at the first call that returns, and
\* raises the last call's exception, at once when it is not retryable and
\* at the max_attempts-th call otherwise.
BackoffAttempts ==
    UnderBackoff =>
        /\ Len(rt.calls) <= rt.max_attempts
        /\ \A i \in 1..(Len(rt.calls) - 1) :
              /\ rt.calls[i] # Returned
              /\ rt.calls[i].exc \in rt.retryable_exceptions
        /\ rt.pc = "call" =>
              /\ Len(rt.calls) < rt.max_attempts
              /\ rt.calls # <<>> => LastCall # Returned
              /\ rt.calls # <<>> => LastCall.exc \in rt.retryable_exceptions
        /\ (rt.pc = "returned" /\ rt.max_attempts >= 1) => LastCall = Returned
        /\ rt.pc = "raised" =>
              /\ LastCall # Returned
              /\ rt.raised = LastCall
              /\ \/ LastCall.exc \notin rt.retryable_exceptions
                 \/ Len(rt.calls) = rt.max_attempts

\* The sleeps of the wrapper follow the formula of the capped exponential.
BackoffDelays ==
    UnderBackoff =>
        \A k \in 1..Len(rt.sleeps) :
            rt.sleeps[k] = Min(rt.initial_delay * Pow(rt.backoff_rate, k - 1),
                               rt.max_delay)

\* C21: a function wrapped by exponential_backoff_retry is called at most
\* max_attempts times, returns its first result, is retried only after a
\* retryable exception, raises the exception of its last attempt, raises a
\* non-retryable exception at once, and sleeps
\* min(initial_delay * backoff_rate^(k-1), max_delay) before the k-th retry.
C21_BackoffRetryContract == BackoffAttempts /\ BackoffDelays

\* The delays follow the formula when the first delay is within the cap.
BackoffDelaysWithinCap ==
    rt.initial_delay <= rt.max_delay => BackoffDelays

UnderApiRetry == rt.wrapper = "retry_on_api_error"

\* The call ended with an APIError whose status code is configured for retry.
RetryableApiError(call) ==
    call.exc = "APIError" /\ call.status_code \in rt.status_codes

\* C22: a function wrapped by retry_on_api_error is called again only
\* after an APIError whose status code is in status_codes, and at most
\* max_attempts times; any other exception is raised at the call that
\* raised it, and the APIError of the max_attempts-th call is raised.
C22_ApiRetryContract ==
    UnderApiRetry =>
        /\ Len(rt.calls) <= rt.max_attempts
        /\ \A i \in 1..(Len(rt.calls) - 1) : RetryableApiError(rt.calls[i])
        /\ rt.pc = "call" =>
              /\ Len(rt.calls) < rt.max_attempts
              /\ rt.calls # <<>> => RetryableApiError(LastCall)
        /\ (rt.pc = "returned" /\ rt.max_attempts >= 1) => LastCall = Returned
        /\ rt.pc = "raised" =>
              /\ rt.raised = LastCall
              /\ LastCall # Returned
              /\ \/ ~RetryableApiError(LastCall)
                 \/ Len(rt.calls) = rt.max_attempts
        /\ (rt.calls # <<>> /\ LastCall # Returned
                /\ ~RetryableApiError(LastCall)) => rt.pc = "raised"

\* Three calls failed with configured status codes; the last one's
\* APIError is raised.
C22_Witness ==
    /\ UnderApiRetry
    /\ rt.pc = "raised"
    /\ rt.max_attempts = 3
    /\ Len(rt.calls) = 3
    /\ rt.raised = Raised("APIError", 503)
    /\ rt.calls[1] = Raised("APIError", 429)

\* An APIError with another status code is raised at the first call.
C22_WitnessOtherStatus ==
    /\ UnderApiRetry
    /\ rt.pc = "raised"
    /\ rt.max_attempts = 3
    /\ Len(rt.calls) = 1
    /\ rt.raised = Raised("APIError", 404)

----------------------------------------------------------------------------
(* Specification of one batched lookup against a ledger that holds any      *)
(* statuses: the ledger is written only between lookups, and the store      *)
(* answers every request it receives.                                       *)

\* An item's status is written while no lookup is running.
LedgerWrittenBetweenLookups ==
    /\ diff.pc = "idle"
    /\ \E m \in MediaIds, status \in {"IN_PROGRESS", "COMPLETED", "FAILED"} :
          DownloaderWrites(m, status)

NextLookup ==
    \/ \E videos \in RemoteLists : DiffFirst(videos)
    \/ DiffReturn
    \/ BatchGetItem
    \/ BatchGetItemFails
    \/ LedgerWrittenBetweenLookups

SpecLookup ==
    /\ Init
    /\ [][NextLookup]_vars
    /\ WF_vars(BatchGetItem \/ BatchGetItemFails)

\* The statuses the lookup holds.
Resolved(d) == DOMAIN d.sync_statuses

\* A request is followed by another request of the same batch.
LookupRetries ==
    diff.pc = "request" /\ diff'.pc = "request" /\ diff'.i = diff.i

\* A request is answered or fails.
LookupStep == diff.pc = "request" /\ diff' # diff

\* Requests of a batch: the keys of a retry are keys the previous request
\* left open and holds no key that it resolved; a key that leaves the
\* request with an item in the ledger has its status in the map; a status
\* in the map stays as it is.
LookupStepContract ==
    LookupStep =>
        /\ LookupRetries =>
              /\ diff'.attempt = diff.attempt + 1
              /\ diff'.pending \subseteq diff.pending
              /\ diff'.pending # {}
              /\ diff'.pending \cap (Resolved(diff') \ Resolved(diff)) = {}
              /\ \A m \in diff.pending \ diff'.pending :
                    ledger[m] # NoItem =>
                        /\ m \in Resolved(diff')
                        /\ diff'.sync_statuses[m] = Status(ledger[m])
        /\ \A m \in Resolved(diff) :
              /\ m \in Resolved(diff')
              /\ diff'.sync_statuses[m] = diff.sync_statuses[m]
        /\ (diff'.pc = "done" /\ ~diff'.lost) =>
              \A m \in diff.pending :
                  ledger[m] # NoItem =>
                      /\ m \in Resolved(diff')
                      /\ diff'.sync_statuses[m] = Status(ledger[m])

\* At most max_retries retries follow the first request of a batch, of at
\* most batch_size keys.
LookupCap ==
    diff.pc = "request" =>
        /\ diff.attempt <= max_retries
        /\ Cardinality(diff.pending) <= batch_size
        /\ diff.pending \subseteq BatchKeys(diff.videos, diff.i)

\* C23: batch_get_sync_status re-requests only the keys a response left
\* unprocessed, at most max_retries times after the first request of a
\* batch; every status a response carried is in the returned map; the keys
\* still open after the last retry are left out of the map, and the lookup
\* always comes to its return.
C23_LookupRetriesUnprocessedAndEnds ==
    /\ []LookupCap
    /\ [][LookupStepContract]_vars
    /\ (diff.pc = "request") ~> (diff.pc = "done")

\* A lookup returned after its last retry left a key open: the map holds
\* the status a response carried and leaves out the key still open.
C23_Witness ==
    /\ diff.pc = "done"
    /\ diff.lost
    /\ diff.attempt = max_retries
    /\ \E a \in Range(diff.videos), b \in Range(diff.videos) :
          /\ a \in Resolved(diff)
          /\ b \notin Resolved(diff)
          /\ ledger[b] # NoItem

----------------------------------------------------------------------------
(* Order of the calls of one video downloader invocation, its upload        *)
(* sessions and its failure handling (checked under Spec).                  *)

\* The requests of the transfer: the download URL resolution, the media
\* download and the calls to the object store that follow.
TransferCalls ==
    {"resolve", "download", "put", "create_multipart_upload",
     "abort_multipart_upload"}

TerminalWrites == {"ledger:COMPLETED", "ledger:FAILED"}

\* C24: in an invocation that went past the idempotency check, the
\* IN_PROGRESS write is made before any download URL resolution or media
\* download, and no request of the transfer follows a COMPLETED or FAILED
\* write; the write of a transfer that was begun is made when the transfer
\* has returned or raised.
C24_InProgressBeforeTransferTerminalAfter ==
    /\ \A i \in 1..Len(dl.calls) :
          dl.calls[i] \in {"resolve", "download"} =>
              \E j \in 1..(i - 1) : dl.calls[j] = "ledger:IN_PROGRESS"
    /\ \A i \in 1..Len(dl.calls) :
          dl.calls[i] \in TerminalWrites =>
              \A j \in (i + 1)..Len(dl.calls) : dl.calls[j] \notin TransferCalls
    /\ (\E i \in 1..Len(dl.calls) : dl.calls[i] \in TerminalWrites) =>
          dl.pc \notin {"inprog", "resolve", "d_get", "d_put", "m_create",
                        "m_get", "m_part", "m_complete", "m_abort"}

\* An invocation wrote IN_PROGRESS, resolved the URL, downloaded, stored the
\* object and then wrote COMPLETED.
C24_Witness ==
    /\ dl.pc = "done" /\ dl.result = "ok"
    /\ dl.calls = <<"ledger:IN_PROGRESS", "resolve", "download", "put",
                    "ledger:COMPLETED">>

\* An invocation whose download failed wrote FAILED after the transfer.
C24_WitnessFailed ==
    /\ dl.pc = "done" /\ dl.result = "raised"
    /\ dl.calls = <<"ledger:IN_PROGRESS", "resolve", "download",
                    "ledger:FAILED">>

\* The positions inside the try block of multipart_upload_stream.
InMultipartTry == dl.pc \in {"m_get", "m_part", "m_complete"}

AbortIssued ==
    \E i \in 1..Len(dl.calls) : dl.calls[i] = "abort_multipart_upload"

\* Where a session stands when multipart_upload_stream is left: completed
\* when it returned, and an abort issued for it otherwise.
SessionClosedOnExit ==
    /\ (dl.upload # "none" /\ ~InMultipartTry /\ dl.pc # "m_abort") =>
          \/ dl.upload = "completed" /\ ~AbortIssued
          \/ dl.upload \in {"aborted", "open"} /\ AbortIssued
    /\ (dl.upload = "open" /\ AbortIssued) => dl.pending # ""
    /\ dl.upload = "completed" => dl.pending = ""

\* The steps of a session: the try block is left to the handler's next
\* statement with the session completed, or to the abort; the abort, failed
\* or not, is followed by the exception that ended the try block.
SessionStep ==
    /\ (InMultipartTry /\ dl' # dl) =>
          /\ dl'.pc \in {"m_get", "m_part", "m_complete", "m_abort", "completed"}
          /\ dl'.pc = "completed" =>
                dl'.upload = "completed" /\ s3'[dl.s3_key] = DlMedia
          /\ dl'.pc = "m_abort" => dl'.pending \in GetErrors
    /\ (dl.pc = "m_abort" /\ dl' # dl) =>
          /\ dl'.calls = Append(dl.calls, "abort_multipart_upload")
          /\ dl'.err = dl.pending
          /\ dl'.pc = Handler(dl.pending)
          /\ dl'.upload \in {"aborted", "open"}

\* C25: a session that multipart_upload_stream opened is completed when the
\* function returns; when the download, a part upload or the completion
\* fails, an abort is issued for the session and the exception that failed
\* the transfer is raised, also when the abort itself fails.
C25_SessionCompletedOrAborted ==
    /\ []SessionClosedOnExit
    /\ [][SessionStep]_vars

\* The download of a session failed, the abort failed as well, and the
\* handler received the download's exception.
C25_Witness ==
    /\ dl.upload = "open"
    /\ AbortIssued
    /\ dl.pending = "HTTPError"
    /\ dl.err = "HTTPError"
    /\ dl.pc = "xfail_ledger"

LastOf(calls) == calls[Len(calls)]

\* The positions of the except clauses that record a failure.
InFailureClause ==
    dl.pc \in {"xfail_ledger", "xfail_metric", "xany_ledger", "xany_metric"}

\* The call that raised the exception the handler has caught.
RaisingCall ==
    IF dl.pc \in {"xfail_metric", "xany_metric"}
    THEN SubSeq(dl.calls, 1, Len(dl.calls) - 1)
    ELSE dl.calls

\* The handler has caught an exception that a request of the transfer
\* raised, other than the 404 of the media download.
CaughtFromTransfer ==
    /\ InFailureClause
    /\ ~dl.saw404
    /\ RaisingCall # <<>>
    /\ LastOf(RaisingCall) \in TransferCalls

TransferFailed ==
    CaughtFromTransfer /\ dl.pc \in {"xfail_ledger", "xany_ledger"}

\* The FAILED write is issued for the item and, when the ledger takes it,
\* the record is FAILED with the message of the caught exception.
FailedWriteIssued ==
    (TransferFailed /\ dl' # dl) =>
        /\ dl'.calls = Append(dl.calls, "ledger:FAILED")
        /\ \A m \in MediaIds : m # DlMedia => ledger'[m] = ledger[m]
        /\ ledger' # ledger =>
              /\ Status(ledger'[DlMedia]) = "FAILED"
              /\ ledger'[DlMedia].error_message = dl.err

\* The except clause ends by raising the exception it caught.
CaughtErrorRaised ==
    (CaughtFromTransfer /\ dl' # dl) =>
        /\ dl'.result \in {"", "raised"}
        /\ dl'.err = dl.err
        /\ dl'.pc = "done" => dl'.result = "raised"

\* C26: when a request of the transfer fails with anything but the 404 of
\* the media download, the handler writes FAILED with the error message for
\* the item and raises the error it caught; it returns no response.
C26_TransferFailureWritesFailedAndRaises ==
    [][FailedWriteIssued /\ CaughtErrorRaised]_vars

\* Every call of the except clause that records the failure succeeds.
FailureRecorded ==
    (CaughtFromTransfer /\ dl'.pc = "done") => dl'.err = dl.err

\* The claim's case when the ledger and the metrics sink answer.
TransferFailureWhenRecorded ==
    [][FailedWriteIssued /\ (FailureRecorded => CaughtErrorRaised)]_vars

\* The retry count the ledger holds for an item: 0 before its first failure.
RecordedRetryCount(item) ==
    IF "retry_count" \in DOMAIN item THEN item.retry_count ELSE 0

\* C27: a FAILED write records a retry count one greater than the count the
\* ledger held for the item from its previous failure.
C27_RetryCountIncrements ==
    [][\A m \in MediaIds :
          (ledger'[m] # ledger[m] /\ Status(ledger'[m]) = "FAILED")
              => ledger'[m].retry_count = RecordedRetryCount(ledger[m]) + 1]_vars

\* C28: a ledger record whose status is COMPLETED is never written FAILED,
\* by the invocation that completed it or by a later one.
C28_CompletedNeverFailed ==
    [][\A m \in MediaIds :
          Status(ledger[m]) = "COMPLETED" => Status(ledger'[m]) # "FAILED"]_vars

\* The IN_PROGRESS write of the invocation raised.
InProgressWriteFailed ==
    /\ dl.pc = "xany_ledger"
    /\ dl.calls = <<"ledger:IN_PROGRESS">>

\* The FAILED write of the invocation is about to be made for a caught
\* transfer error.
AtFailedWrite == dl.pc \in {"xfail_ledger", "xany_ledger"}

\* C29: a ledger write that fails leaves the outcome of the transfer as it
\* is reported: after a failed IN_PROGRESS write the handler goes on to the
\* transfer of the item, and after a failed FAILED write the handler raises
\* the transfer error it had caught.
C29_LedgerFailureKeepsOutcome ==
    /\ [] ~InProgressWriteFailed
    /\ [][(AtFailedWrite /\ dl' # dl) => dl'.err = dl.err]_vars

\* The upload and the COMPLETED write succeeded and the handler publishes
\* its metrics.
AtSuccessMetrics == dl.pc \in {"metrics", "ttfb"}

\* C30: once the upload and the COMPLETED write succeeded, the handler
\* returns its success response and the record stays COMPLETED, whatever
\* the metrics sink answers.
C30_MetricsFailureNotPropagated ==
    [][(AtSuccessMetrics /\ dl' # dl) =>
          /\ dl'.pc \in {"metrics", "ttfb", "done"}
          /\ dl'.pc = "done" => dl'.result = "ok"
          /\ dl'.err = ""
          /\ Status(ledger'[DlMedia]) = "COMPLETED"]_vars

----------------------------------------------------------------------------
(* Choice of the upload method for every declared size (under SpecSize).    *)

\* C31: download_and_upload_video uploads in parts exactly when the declared
\* size is 0 or greater than MULTIPART_THRESHOLD, and directly for every
\* size from 1 up to the threshold.
C31_MultipartIffUnknownOrAbove ==
    /\ InMultipartUpload =>
          DeclaredSize = 0 \/ DeclaredSize > MULTIPART_THRESHOLD
    /\ InDirectUpload =>
          DeclaredSize >= 1 /\ DeclaredSize <= MULTIPART_THRESHOLD
    /\ dl.upload # "none" =>
          DeclaredSize = 0 \/ DeclaredSize > MULTIPART_THRESHOLD
    /\ (dl.pc \in {"completed", "metrics", "ttfb"} /\ dl.upload = "none") =>
          DeclaredSize >= 1 /\ DeclaredSize <= MULTIPART_THRESHOLD

\* An item of unknown size is being uploaded in parts.
C31_Witness ==
    /\ dl.pc = "m_part"
    /\ DeclaredSize = 0
    /\ dl.upload = "open"

\* An item of one byte was uploaded directly.
C31_WitnessSmall ==
    /\ dl.pc = "completed"
    /\ DeclaredSize = 1
    /\ dl.upload = "none"

----------------------------------------------------------------------------
(* SpecProvider: calls of the provider client, the provider answering each  *)
(* request with any status and any page.                                     *)

StartPages == 1..2
PageSizes == 1..2
MaxResults == 0..3
PageItemLists ==
    {<<>>, <<"video">>, <<"other">>, <<"video", "video">>,
     <<"video", "other">>, <<"other", "video">>}
TotalPages == 1..3
FailureStatuses == {404, 429, 503, Timeout, ConnectionError}

\* The answers the provider can give to the request of page `page`: a page
\* with its items and pagination block, or a failure. A pagination block
\* without current_page or total_pages reads as the page asked for.
PageAnswers(page) ==
    { [status |-> 200, items |-> items, current_page |-> page,
       total_pages |-> total] : items \in PageItemLists, total \in TotalPages }
      \cup { [status |-> st, items |-> <<>>, current_page |-> page,
              total_pages |-> page] : st \in FailureStatuses }

PvListCall ==
    /\ pv.pc = "idle"
    /\ \E start_page \in StartPages, page_size \in PageSizes, n \in MaxResults :
           pv' = PvListEnter(start_page, page_size, n)
    /\ UNCHANGED <<now, ledger, s3, dl, started, diff, tv, sfn, tvh, secret, rot, rt, ml, up, failed>>

PvPageAnswer ==
    /\ pv.fn = "list_media_with_start_page"
    /\ pv.pc = "request"
    /\ \E answer \in PageAnswers(pv.page) :
           pv' = list_media_with_start_page(pv, answer)
    /\ UNCHANGED <<now, ledger, s3, dl, started, diff, tv, sfn, tvh, secret, rot, rt, ml, up, failed>>

PvUrlCall ==
    /\ pv.pc = "idle"
    /\ pv' = PvUrlEnter
    /\ UNCHANGED <<now, ledger, s3, dl, started, diff, tv, sfn, tvh, secret, rot, rt, ml, up, failed>>

PvUrlAnswer ==
    /\ pv.fn = "get_download_url"
    /\ pv.pc = "request"
    /\ \E answer \in PageAnswers(1) : pv' = get_download_url(pv, answer)
    /\ UNCHANGED <<now, ledger, s3, dl, started, diff, tv, sfn, tvh, secret, rot, rt, ml, up, failed>>

NextProvider == PvListCall \/ PvPageAnswer \/ PvUrlCall \/ PvUrlAnswer

SpecProvider == Init /\ [][NextProvider]_vars /\ WF_vars(PvPageAnswer)

\* The statuses on which the provider asks its clients to come back later.
TransientStatuses == {429, 503}

\* Number of requests made for the page (or URL) requested last.
RequestsOfLast ==
    Cardinality({k \in 1..Len(pv.requests) :
                     pv.requests[k] = pv.requests[Len(pv.requests)]})

PvAnswered == pv.answers # <<>>

LastAnswer == pv.answers[Len(pv.answers)]

\* C32: a provider call of the workflow (list_media_with_start_page,
\* get_download_url) that is answered 429 or 5xx is attempted again before
\* it fails, and one answered another 4xx is not attempted again.
C32_TransientAnswerIsRetried ==
    (pv.pc = "raised" /\ PvAnswered) =>
        IF LastAnswer.status \in TransientStatuses
        THEN RequestsOfLast > 1
        ELSE RequestsOfLast = 1

\* What the code does: every failed answer ends the call at the first
\* request, with the APIError of that status.
ProviderCallsNeverRetry ==
    /\ RequestsOfLast <= 1
    /\ (pv.pc = "raised" /\ LastAnswer.status # 200) =>
           pv.raised = ApiErrorStatus(LastAnswer.status)

----------------------------------------------------------------------------
(* C35: pagination of list_media_with_start_page.                           *)

UnderListing == pv.fn = "list_media_with_start_page"

\* The videos the answered pages offered, in the provider's order: page by
\* page, and within a page in the order of its items.
RECURSIVE Offered(_)
Offered(k) ==
    IF k = 0 THEN <<>>
    ELSE Offered(k - 1) \o
         (IF pv.answers[k].status # 200 THEN <<>>
          ELSE LET items == pv.answers[k].items
               IN  SelectSeq([i \in 1..Len(items) |-> <<pv.requests[k], i>>],
                             LAMBDA e : items[e[2]] = "video"))

\* The least number of pages of page_size items that hold max_results items.
PagesFor(max_results, page_size) ==
    CHOOSE n \in 0..max_results :
        /\ n * page_size >= max_results
        /\ \A m \in 0..max_results : m * page_size >= max_results => n <= m

\* One of the claim's three reasons to stop holds after the last answer.
StopReached ==
    \/ Len(pv.videos) >= pv.max_results
    \/ LastAnswer.items = <<>>
    \/ LastAnswer.current_page >= LastAnswer.total_pages

PagingContract ==
    UnderListing =>
        /\ \A k \in 1..Len(pv.requests) : pv.requests[k] = pv.start_page + k - 1
        /\ Len(pv.videos) <= pv.max_results
        /\ LET all == Offered(Len(pv.answers))
           IN  pv.videos =
                   SubSeq(all, 1, IF Len(all) < pv.max_results
                                  THEN Len(all) ELSE pv.max_results)
        /\ Len(pv.requests) <= PagesFor(pv.max_results, pv.page_size)
        /\ Len(pv.requests) =
               Len(pv.answers) + (IF pv.pc = "request" THEN 1 ELSE 0)
        /\ (pv.pc = "request" /\ PvAnswered) =>
               (LastAnswer.status = 200 /\ ~StopReached)

PagingOver == pv.pc \in {"returned", "raised"}

\* C35: list_media_with_start_page asks for consecutive pages from
\* start_page on, returns at most max_results videos in the provider's page
\* order, asks for no further page once max_results is reached, a page is
\* empty or current_page >= total_pages, and is over after at most
\* ceil(max_results / page_size) requests.
C35_PagingBoundedAndOrdered ==
    /\ []PagingContract
    /\ (UnderListing ~> (UnderListing /\ PagingOver))

\* Two pages were requested and the second filled the list to max_results.
C35_Witness ==
    /\ UnderListing
    /\ pv.pc = "returned"
    /\ Len(pv.requests) = 2
    /\ pv.max_results = 3
    /\ Len(pv.videos) = pv.max_results

\* The listing ended on the provider's last page, short of max_results.
C35_WitnessLastPage ==
    /\ UnderListing
    /\ pv.pc = "returned"
    /\ Len(pv.requests) = 2
    /\ Len(pv.videos) < pv.max_results
    /\ LastAnswer.items # <<>>
    /\ LastAnswer.current_page >= LastAnswer.total_pages

----------------------------------------------------------------------------
(* C33: the retry budget of an item (checked under SpecSfn).                *)

\* The invocation of the iteration raised the exception of a media download
\* that is neither an HTTP error status nor a TransferError: a connection
\* or timeout error of the request or of the read of its body.
NetworkFailure(it) ==
    /\ it.raised
    /\ it.errorType = "Exception"
    /\ it.raised_in = "download"

IterationOver(it) == it.status \in {"succeeded", "failed"}

\* C33: an item whose transfer fails with a network or timeout error is
\* invoked again until the retries of DownloadVideo are used up; then the
\* item is marked failed, its ledger status is FAILED, and no sibling
\* iteration is aborted.
C33_NetworkFailureRetriedThenFailed ==
    \A j \in DOMAIN sfn.iters :
        (IterationOver(sfn.iters[j]) /\ NetworkFailure(sfn.iters[j])) =>
            /\ sfn.iters[j].attempts = max_attempts
            /\ sfn.iters[j].status = "succeeded"
            /\ sfn.iters[j].output.status = "FAILED"
            /\ Status(ledger[IterationMedia(j)]) = "FAILED"
            /\ \A k \in DOMAIN sfn.iters : sfn.iters[k].status # "aborted"

\* What the state machine does: no error the downloader raises is named by
\* the Retry of DownloadVideo, so no invocation is ever repeated.
DownloadNeverRetried ==
    \A j \in DOMAIN sfn.iters : sfn.iters[j].attempts = 0

----------------------------------------------------------------------------
(* The media lister's handler (media_lister/handler.py), from its           *)
(* invocation to its response.  `faults` counts the failures of the         *)
(* services around it (secret store, metrics, topic) in the invocation.     *)

\* What list_media_with_start_page gives list_media_from_provider: its
\* return value, the tuple (videos, pagination_metadata) of
\* gopro_provider.py lines 578 and 615, or an APIError.
ProviderReturn(remote) ==
    << [type |-> "list", items |-> remote], [type |-> "dict", items |-> <<>>] >>

ProviderAnswers ==
    {[kind |-> "returned", listed |-> remote, value |-> ProviderReturn(remote)] :
        remote \in RemoteLists}
      \cup {[kind |-> "APIError", listed |-> <<>>, value |-> st] :
               st \in {404, 429, 503}}

\* The elements a for loop over a Python value yields.
Elements(value) ==
    [k \in 1..Len(value) |-> value[k]]

\* The loop of list_media_from_provider over the elements of `videos` (lines
\* 246-267). An element that is a VideoMetadata gives a dictionary, kept when
\* validate_video_metadata accepts it and skipped with a warning when it
\* raises. Of any other element the attribute media_id is missing: the
\* AttributeError is caught, and raised again by the warning's
\* video.media_id, out of the loop.
RECURSIVE ConvertVideos(_, _, _)
ConvertVideos(elements, k, video_dicts) ==
    IF k > Len(elements) THEN [raised |-> "", video_dicts |-> video_dicts]
    ELSE IF elements[k].type # "VideoMetadata"
    THEN [raised |-> "AttributeError", video_dicts |-> video_dicts]
    ELSE ConvertVideos(elements, k + 1,
                       IF ValidVideo(VideoDict(elements[k].items))
                       THEN Append(video_dicts, elements[k].items)
                       ELSE video_dicts)

\* list_media_from_provider (lines 203-278): an APIError of the provider is
\* raised as it is, any other exception as ProviderError.
list_media_from_provider(answer) ==
    IF answer.kind = "APIError"
    THEN [raised |-> "APIError", status_code |-> answer.value, video_dicts |-> <<>>]
    ELSE LET r == ConvertVideos(Elements(answer.value), 1, <<>>)
         IN  IF r.raised # ""
             THEN [raised |-> "ProviderError", status_code |-> 0,
                   video_dicts |-> <<>>]
             ELSE [raised |-> "", status_code |-> 0, video_dicts |-> r.video_dicts]

\* An exception reaches the except clauses of the handler (lines 128, 153).
MlCaught(l, error, status_code) ==
    [l EXCEPT !.pc = IF error = "APIError" THEN "api_error_metric"
                     ELSE "error_metric",
              !.error = error, !.status_code = status_code]

MlFault(l, ok) == [l EXCEPT !.faults = IF ok THEN @ ELSE 1]

\* The handler returns a response with this statusCode.
MlRespond(l, statusCode) == [l EXCEPT !.pc = "done", !.statusCode = statusCode]

\* An exception leaves the handler.
MlRaise(l, error) == [l EXCEPT !.pc = "done", !.raised = error]

\* retrieve_credentials (line 59).
MlCredentials(l, ok) ==
    IF ok THEN [l EXCEPT !.pc = "list"]
    ELSE MlCaught(MlFault(l, FALSE), "ProviderError", 0)

\* list_media_from_provider (line 68).
MlList(l, answer) ==
    LET r == list_media_from_provider(answer)
        w == [l EXCEPT !.listed = answer.listed,
                       !.returned = (answer.kind = "returned")]
    IN  IF r.raised # "" THEN MlCaught(w, r.raised, r.status_code)
        ELSE [w EXCEPT !.pc = "listed_metric", !.all_videos = r.video_dicts]

\* put_metric MediaListedFromProvider (lines 73-77).
MlListedMetric(l, ok) ==
    IF ok THEN [l EXCEPT !.pc = "filter"]
    ELSE MlCaught(MlFault(l, FALSE), "Exception", 0)

\* filter_new_videos (line 80), ended as d.
MlFilter(l, d) == [l EXCEPT !.pc = "success_metrics", !.new_videos = d.new_videos]

\* put_metrics and the success response (lines 88-126).
MlSuccess(l, ok) ==
    IF ok THEN MlRespond(l, 200)
    ELSE MlCaught(MlFault(l, FALSE), "Exception", 0)

\* except APIError (lines 128-151): the ListingFailure metric, the alert when
\* the error's status_code is 200, and the 500 response.
MlApiErrorMetric(l, ok) ==
    IF ~ok THEN MlRaise(MlFault(l, FALSE), "Exception")
    ELSE IF l.status_code = 200 THEN [l EXCEPT !.pc = "alert"]
    ELSE MlRespond(l, 500)

\* publish_api_structure_alert (lines 479-522): the publish to the topic;
\* its exception is logged and dropped.
publish_api_structure_alert(l, ok) ==
    MlRespond([MlFault(l, ok) EXCEPT !.alerts = @ + 1], 500)

\* except Exception (lines 153-171).
MlErrorMetric(l, ok) ==
    IF ~ok THEN MlRaise(MlFault(l, FALSE), "Exception")
    ELSE MlRespond(l, 500)

MlInvoke ==
    /\ ml.pc \in {"idle", "done"}
    /\ ml' = [IdleMl EXCEPT !.pc = "credentials"]
    /\ UNCHANGED <<now, ledger, s3, dl, started, diff, tv, sfn, tvh, secret, rot, rt, pv, up, failed>>

\* The positions the handler can be in after its next call, over the answers
\* of the provider, of the ledger (table) and of the services around it.
MlNext(l, table) ==
    CASE l.pc = "credentials" -> {MlCredentials(l, ok) : ok \in BOOLEAN}
      [] l.pc = "list" -> {MlList(l, answer) : answer \in ProviderAnswers}
      [] l.pc = "listed_metric" -> {MlListedMetric(l, ok) : ok \in BOOLEAN}
      [] l.pc = "filter" ->
            {MlFilter(l, d) :
                d \in DiffOutcomes(filter_new_videos(IdleDiff, l.all_videos), table)}
      [] l.pc = "success_metrics" -> {MlSuccess(l, ok) : ok \in BOOLEAN}
      [] l.pc = "api_error_metric" -> {MlApiErrorMetric(l, ok) : ok \in BOOLEAN}
      [] l.pc = "alert" -> {publish_api_structure_alert(l, ok) : ok \in BOOLEAN}
      [] l.pc = "error_metric" -> {MlErrorMetric(l, ok) : ok \in BOOLEAN}
      [] OTHER -> {}

\* The handler makes its next call and takes the answer.
MlStep ==
    /\ ml' \in MlNext(ml, ledger)
    /\ UNCHANGED <<now, ledger, s3, dl, started, diff, tv, sfn, tvh, secret, rot, rt, pv, up, failed>>

NextLister ==
    \/ MlInvoke
    \/ MlStep
    \/ \E m \in MediaIds, status \in {"IN_PROGRESS", "COMPLETED", "FAILED"} :
          DownloaderWrites(m, status)

SpecLister == Init /\ [][NextLister]_vars

\* An item of the provider's list lacks a required field.
LacksRequiredField(m) == ~ValidVideo(VideoDict(m))

\* The invocation is over, the provider had answered 200 with a list that
\* holds an item without a required field, and no service around the handler
\* failed.
ListedDeficientItem ==
    /\ ml.pc = "done"
    /\ ml.returned
    /\ ml.faults = 0
    /\ \E j \in 1..Len(ml.listed) : LacksRequiredField(ml.listed[j])

\* C34: when the provider answers 200 and a listed item lacks a required
\* field, the media lister returns statusCode 200 with the valid items of
\* the list, the deficient item skipped, and has published the
\* API_STRUCTURE_CHANGE alert.
C34_DeficientItemSkippedAndAlerted ==
    ListedDeficientItem =>
        /\ ml.raised = ""
        /\ ml.statusCode = 200
        /\ ml.all_videos = ValidatedIds(ml.listed)
        /\ ml.alerts = 1

\* What the handler does with every list the provider returns.
ListingAlwaysFails ==
    (ml.pc = "done" /\ ml.returned /\ ml.faults = 0) =>
        /\ ml.statusCode = 500 /\ ml.error = "ProviderError"
        /\ ml.alerts = 0

----------------------------------------------------------------------------
(* SpecUpsert: calls of update_sync_status on the ledger, at any time of    *)
(* the clock, with any status and attributes; table.update_item succeeds    *)
(* or raises.                                                               *)

UpsertIds == {"m1", "m2"}

UpsertStatuses == {"IN_PROGRESS", "COMPLETED"}

UpsertAttributes ==
    { NoItem,
      [filename |-> "GH010001.MP4"],
      [filename |-> "GH010002.MP4", s3_key |-> "key"],
      [k \in {"x-note"} |-> "source_deleted"] }

\* update_sync_status(table, media_id, status, attributes) returns.
UpdateSyncStatus(media_id, status, attributes) ==
    /\ ledger' = [ledger EXCEPT ![media_id] =
                     update_sync_status(@, status, attributes, now)]
    /\ up' = [media_id |-> media_id, status |-> status,
              attributes |-> attributes, raised |-> FALSE]
    /\ UNCHANGED <<now, s3, dl, started, diff, tv, sfn, tvh, secret, rot, rt, pv, ml, failed>>

\* table.update_item raises: the error is logged and raised again (lines
\* 391-393), the table unchanged.
UpdateSyncStatusRaises(media_id, status, attributes) ==
    /\ up' = [media_id |-> media_id, status |-> status,
              attributes |-> attributes, raised |-> TRUE]
    /\ UNCHANGED <<now, ledger, s3, dl, started, diff, tv, sfn, tvh, secret, rot, rt, pv, ml, failed>>

NextUpsert ==
    \/ \E media_id \in UpsertIds, status \in UpsertStatuses,
          attributes \in UpsertAttributes :
            UpdateSyncStatus(media_id, status, attributes)
    \/ \E media_id \in UpsertIds, status \in UpsertStatuses,
          attributes \in UpsertAttributes :
            UpdateSyncStatusRaises(media_id, status, attributes)
    \/ Tick

SpecUpsert == Init /\ [][NextUpsert]_vars

\* The attribute names a call sets.
SetBy(call) ==
    {safe_key(a) : a \in DOMAIN call.attributes} \cup {"status", "update_timestamp"}

\* The step is a call of update_sync_status that returned.
UpsertReturned == now' = now /\ ~up'.raised

\* The call sets its status, the time of the call and its attributes on the
\* record of its media id.
UpsertSets ==
    LET item == ledger'[up'.media_id]
    IN  /\ DOMAIN item = DOMAIN ledger[up'.media_id] \cup SetBy(up')
        /\ item.status = up'.status
        /\ item.update_timestamp = now
        /\ \A a \in DOMAIN up'.attributes :
               item[safe_key(a)] = up'.attributes[a]

\* Every attribute the call does not name keeps its value, and so does every
\* other record.
UpsertFrame ==
    /\ \A k \in DOMAIN ledger[up'.media_id] \ SetBy(up') :
           ledger'[up'.media_id][k] = ledger[up'.media_id][k]
    /\ \A m \in MediaIds \ {up'.media_id} : ledger'[m] = ledger[m]

\* The call repeats the last one, which had returned.
UpsertRepeated == up' = up /\ ~up.raised

\* Nothing but the update timestamp of the record differs after the step.
OnlyTimestampChanged ==
    /\ DOMAIN ledger'[up.media_id] = DOMAIN ledger[up.media_id]
    /\ \A k \in DOMAIN ledger[up.media_id] \ {"update_timestamp"} :
           ledger'[up.media_id][k] = ledger[up.media_id][k]

UpsertStep ==
    UpsertReturned =>
        /\ UpsertSets
        /\ UpsertFrame
        /\ UpsertRepeated => OnlyTimestampChanged

\* C36: a call of update_sync_status changes the status, the update
\* timestamp and the attributes passed, on the record of its media id only;
\* every other stored attribute and every other record keep their values,
\* and the same call repeated changes nothing but the timestamp.
C36_UpsertMergesAndRepeats == [][UpsertStep]_vars

\* A COMPLETED call with a storage key was made on a record that already
\* held a note from an earlier call, and the note is still there.
C36_Witness ==
    /\ ~up.raised
    /\ up.status = "COMPLETED"
    /\ "s3_key" \in DOMAIN up.attributes
    /\ "x_note" \in DOMAIN ledger[up.media_id]
    /\ ledger[up.media_id].status = "COMPLETED"
    /\ ledger[up.media_id].s3_key = "key"

\* A call was repeated at a later time: the record holds the values of the
\* call and a timestamp later than the first call.
C36_WitnessRepeated ==
    /\ ~up.raised
    /\ up.media_id # ""
    /\ now = MaxNow
    /\ ledger[up.media_id].update_timestamp = MaxNow
    /\ ledger[up.media_id].status = up.status
    /\ "filename" \in DOMAIN up.attributes

----------------------------------------------------------------------------
(* SpecBatches: the batched lookup of a list longer than one batch.  The    *)
(* media ids of the list are the numbers 1..batch_size + 1, so that the     *)
(* lookup can make two batches; the table has a record for two ids of three. *)

\* The lists: one that fills a batch, and one with an item more.
LongLists == {[j \in 1..n |-> j] : n \in {batch_size, batch_size + 1}}

LongTable ==
    [m \in 1..(batch_size + 1) |->
        IF m % 3 = 0 THEN NoItem
        ELSE [status |-> IF m % 3 = 1 THEN "COMPLETED" ELSE "FAILED"]]

\* The keys a response can process: all of the request, none, the even ones,
\* or all but the least.
ProcessedChoices(pending) ==
    { pending, {}, {m \in pending : m % 2 = 0},
      {m \in pending : \E n \in pending : n < m} }

LongDiff ==
    /\ diff.pc = "idle"
    /\ \E videos \in LongLists : diff' = filter_new_videos(IdleDiff, videos)
    /\ failed' = {}
    /\ UNCHANGED <<now, ledger, s3, dl, started, tv, sfn, tvh, secret, rot, rt, pv, ml, up>>

LongBatchGetItem ==
    /\ diff.pc = "request"
    /\ \E processed \in ProcessedChoices(diff.pending) :
          diff' = BatchResponse(diff, LongTable, processed)
    /\ UNCHANGED <<now, ledger, s3, dl, started, tv, sfn, tvh, secret, rot, rt, pv, ml, up, failed>>

\* The ledger store fails a request of the lookup.
LongBatchGetItemFails ==
    /\ diff.pc = "request"
    /\ diff' = BatchError(diff)
    /\ failed' = failed \cup diff.pending
    /\ UNCHANGED <<now, ledger, s3, dl, started, tv, sfn, tvh, secret, rot, rt, pv, ml, up>>

NextBatches == LongDiff \/ LongBatchGetItem \/ LongBatchGetItemFails \/ DiffReturn

SpecBatches == Init /\ [][NextBatches]_vars

\* The position of a media id in the list, and the offset of its batch.
PositionOf(m) == CHOOSE j \in 1..Len(diff.videos) : diff.videos[j] = m

BatchOffsetOf(m) == ((PositionOf(m) - 1) \div batch_size) * batch_size

\* The ids of the batches one of whose requests raised.
FailedBatchIds ==
    IF diff.pc = "idle" THEN {}
    ELSE UNION {BatchKeys(diff.videos, BatchOffsetOf(m)) : m \in failed}

NewVideoIds == {diff.new_videos[j] : j \in 1..Len(diff.new_videos)}

\* C37 as stated: after a request of the lookup raised, no id of its batch
\* is in the result, and the diff returns every id of the batch as new.
C37_FailedBatchAbsent ==
    /\ \A m \in FailedBatchIds : m \notin DOMAIN diff.sync_statuses
    /\ diff.pc = "done" => FailedBatchIds \subseteq NewVideoIds

\* The step in which a request raised.
RequestRaised == failed' # failed /\ diff.pc = "request"

\* The lookup goes on after the request raised: the statuses are kept and
\* the next batch, if any, is requested; after the last batch the lookup
\* returns and the list is filtered.
LookupContinues ==
    /\ diff'.sync_statuses = diff.sync_statuses
    /\ failed' = failed \cup diff.pending
    /\ IF diff.i + batch_size < Len(diff.videos)
       THEN /\ diff'.pc = "request"
            /\ diff'.attempt = 0
            /\ diff'.pending = BatchKeys(diff.videos, diff.i + batch_size)
       ELSE /\ diff'.pc = "done"
            /\ diff'.new_videos =
                   FilterLoop(diff.videos, diff.sync_statuses, <<>>)

\* The keys of a request that raised have no status in the result and are
\* returned as new by the diff; the statuses in the result are those of the
\* table.
FailedKeysAbsent ==
    /\ \A m \in failed : m \notin DOMAIN diff.sync_statuses
    /\ \A m \in DOMAIN diff.sync_statuses :
           diff.sync_statuses[m] = Status(LongTable[m])
    /\ diff.pc = "done" => failed \subseteq NewVideoIds

\* C37 (amended): a request of the lookup that raises ends its batch only:
\* the statuses gathered so far are kept, the remaining batches are
\* requested, and the keys of the request that raised (the whole batch at
\* its first attempt, the keys still unprocessed at a retry) are absent from
\* the result and returned as new by the diff.
C37_FailedRequestKeysAbsent ==
    /\ []FailedKeysAbsent
    /\ [][RequestRaised => LookupContinues]_vars

\* The first batch failed at a retry, after a response had given the
\* statuses of some of its keys; the second batch was answered, and the diff
\* is over with statuses of both batches in the result.
C37_Witness ==
    /\ diff.pc = "done"
    /\ failed # {}
    /\ FailedBatchIds # failed
    /\ 2 \in DOMAIN diff.sync_statuses
    /\ (batch_size + 1) \in DOMAIN diff.sync_statuses
    /\ 1 \in failed /\ 1 \in NewVideoIds

----------------------------------------------------------------------------
(* C38: the outcome signals of a rotation (checked under SpecRot).          *)

\* The read, the refresh, the probe and the store of the invocation all
\* succeeded.
AllStepsSucceeded ==
    /\ rot.current # NoItem
    /\ rot.refreshed /\ rot.tested
    /\ rot.writes = <<[credentials |-> rot.new, outcome |-> "ok"]>>

\* The outcome the handler reports: the statusCode it returns, the metric
\* set it publishes and the notification it sends.
ReportedSuccess ==
    /\ rot.response.statusCode = 200
    /\ rot.metrics[1].success
    /\ rot.notified[1].subject = "Secrets Rotation Successful"

ReportedFailure ==
    /\ rot.response.statusCode = 500
    /\ ~rot.metrics[1].success
    /\ rot.notified[1].subject = "Secrets Rotation Failed"

\* C38: an invocation of the secrets rotator makes one call of
\* publish_rotation_metrics and one publish of a notification, whichever
\* step failed or none; it ends with a response, of statusCode 200 with the
\* success signals when read, refresh, probe and store all succeeded, and of
\* statusCode 500 with the failure signals otherwise.
C38_OneOutcomeSignalPerInvocation ==
    /\ Len(rot.metrics) <= 1 /\ Len(rot.notified) <= 1
    /\ rot.pc = "done" =>
          /\ Len(rot.metrics) = 1 /\ Len(rot.notified) = 1
          /\ rot.response # NoItem
          /\ IF AllStepsSucceeded THEN ReportedSuccess ELSE ReportedFailure

\* An invocation whose store failed and was rolled back has ended.
C38_Witness ==
    /\ rot.pc = "done"
    /\ rot.refreshed /\ rot.tested
    /\ Len(rot.writes) = 2
    /\ ReportedFailure
    /\ Len(rot.metrics) = 1 /\ Len(rot.notified) = 1

\* An invocation in which every step succeeded has ended.
C38_WitnessSuccess ==
    /\ rot.pc = "done"
    /\ AllStepsSucceeded
    /\ ReportedSuccess

----------------------------------------------------------------------------
(* C39: the ends of an execution (checked under SpecSfn).                   *)

TerminalStates == {"TokensInvalid", "SyncFailed", "NoNewVideos", "SyncComplete"}

ExecutionEnded == sfn.status \in {"SUCCEEDED", "FAILED"}

\* The Map has started an iteration only in an execution whose validation is
\* valid and whose listing holds a new video.
DownloadsAfterValidListing ==
    (\E j \in DOMAIN sfn.iters : sfn.iters[j].status # "pending") =>
        /\ Has(sfn.data, {"validation", "media"})
        /\ sfn.data.validation.valid = TRUE
        /\ sfn.data.media.new_count > 0

\* C39: an execution that has ended has ended in one of the states
\* TokensInvalid, SyncFailed, NoNewVideos and SyncComplete, whatever the
\* token validator, the media lister and the video downloader returned or
\* raised; and downloads are started only after ValidateTokens reported
\* valid and ListMedia reported a new item.
C39_EndsInTerminalState ==
    /\ ExecutionEnded => sfn.state \in TerminalStates
    /\ DownloadsAfterValidListing

----------------------------------------------------------------------------
(* COMPLETED records and the objects their storage keys name (checked under *)
(* Spec). The key is computed from provider, upload month and filename      *)
(* only (generate_s3_key), so two media ids of one filename and one upload  *)
(* month share a key: m1 and m2 of the catalog do.                          *)

\* The ledger records that are COMPLETED and hold a storage key.
CompletedWithKey ==
    {m \in MediaIds : Status(ledger[m]) = "COMPLETED" /\ "s3_key" \in DOMAIN ledger[m]}

\* C40: in every reachable state, for every ledger record with status
\* COMPLETED and a recorded storage key, the object stored at that key
\* carries SourceMediaId metadata equal to the record's media id, also when
\* two distinct media ids of one filename and one upload month are
\* transferred.
C40_CompletedObjectCarriesMediaId ==
    \A m \in CompletedWithKey : s3[ledger[m].s3_key] = m

====
